---- MODULE Spec2Model ----
(***************************************************************************)
(* A model of keyberon's layout engine (src/src/layout.rs): the bounded   *)
(* event deque, the hold-tap arbiter, the states vector and the custom-   *)
(* event channel.  Every operator is a translation of the function of the  *)
(* same name; a struct is a record, an Option a sequence of length 0 or 1. *)
(* The matrix scanner (src/src/debounced_matrix.rs) is modelled beside it. *)
(***************************************************************************)
EXTENDS Integers, Sequences, FiniteSets, Bags, TLC

VARIABLES
    layers,          \* Layout.layers: the static action table [layer][row][col]
    default_layer,   \* Layout.default_layer
    states,          \* Layout.states: heapless Vec<State, 64>
    waiting,         \* Layout.waiting: Option<WaitingState>
    deque,           \* Layout.deque: ArrayDeque<[Stacked; 16], Wrapping>
    overflow_checks, \* build profile: TRUE when integer overflow panics (debug)
    panicked,        \* TRUE once an assert! or an arithmetic check has failed
    last,            \* observation of the last call: its name, argument and steps
    tk,              \* observation of the last tick(): its result, steps and what it found
    wg,              \* history of the waiting hold-tap: its timeout, arbiter ticks, age
    fifo,            \* history: the events passed to event() and not yet processed
    live,            \* history: coords whose Press was processed with no Release since
    down,            \* environment: the keys that are physically held
    matrix,          \* the DebouncedMatrix struct, with its const B and its pins
    sc,              \* observation of the last scan(): its input, result and history
    rm               \* an Event, a remapping of the coordinates and what transform made of it

vars == <<layers, default_layer, states, waiting, deque, overflow_checks,
          panicked, last, tk, wg, fifo, live, down, matrix, sc, rm>>

(***************************************************************************)
(* Bounds of the model and constants of the program.                       *)
(***************************************************************************)
MaxQueue == 3
BurstQueue == 2
FullQueue == 1
ActionQueue == 2
HoldTimeout == 2
DequeCap == 16
StatesCap == 64
U16Max == 65535

(***************************************************************************)
(* Event (layout.rs 86-142).                                               *)
(***************************************************************************)
Press(i, j) == [t |-> "Press", i |-> i, j |-> j]
Release(i, j) == [t |-> "Release", i |-> i, j |-> j]
coord(e) == <<e.i, e.j>>
is_press(e) == e.t = "Press"
is_release(e) == e.t = "Release"

\* Mutant of transform: the result is a Press whatever the event was.
transform_as_press(e, f) == Press(f[coord(e)][1], f[coord(e)][2])

\* No event has been remapped.
NoRemap == [e |-> Press(0, 0), f |-> <<>>, out |-> Press(0, 0), calls |-> 0]

\* Event::transform: f is the closure, a function of the coordinates.
transform(e, f) ==
    IF e.t = "Press"
    THEN LET ij == f[<<e.i, e.j>>] IN Press(ij[1], ij[2])
    ELSE LET ij == f[<<e.i, e.j>>] IN Release(ij[1], ij[2])
NoArg == [t |-> "None", i |-> 0, j |-> 0]

(***************************************************************************)
(* Action and HoldTapConfig, as do_action and WaitingState::tick match     *)
(* them.                                                                   *)
(***************************************************************************)
NoOp == [t |-> "NoOp"]
Trans == [t |-> "Trans"]
k(kc) == [t |-> "KeyCode", keycode |-> kc]
m(kcs) == [t |-> "MultipleKeyCodes", keycodes |-> kcs]
l(n) == [t |-> "Layer", value |-> n]
DefaultLayer(n) == [t |-> "DefaultLayer", value |-> n]
MultipleActions(v) == [t |-> "MultipleActions", actions |-> v]
Custom(v) == [t |-> "Custom", value |-> v]
HoldTap(timeout, hold, tap, config) ==
    [t |-> "HoldTap", timeout |-> timeout, hold |-> hold, tap |-> tap,
     config |-> config]

(***************************************************************************)
(* CustomEvent (layout.rs 144-172).                                        *)
(***************************************************************************)
NoEvent == [t |-> "NoEvent", value |-> 0]
CustomPress(v) == [t |-> "Press", value |-> v]
CustomRelease(v) == [t |-> "Release", value |-> v]

\* Mutant of update: every event that is not NoEvent replaces the current one.
update_latest(self, e) == IF e.t # "NoEvent" THEN e ELSE self

update(self, e) ==
    IF \/ (e.t = "Release" /\ self.t = "NoEvent")
       \/ (e.t = "Release" /\ self.t = "Press")
       \/ (e.t = "Press" /\ self.t = "NoEvent")
    THEN e
    ELSE self

(***************************************************************************)
(* State (layout.rs 174-209).                                              *)
(***************************************************************************)
NormalKey(keycode, c) == [t |-> "NormalKey", keycode |-> keycode, coord |-> c]
LayerModifier(value, c) == [t |-> "LayerModifier", value |-> value, coord |-> c]
CustomState(value, c) == [t |-> "Custom", value |-> value, coord |-> c]

\* State::keycode: Some(keycode) for a NormalKey, None otherwise.
keycode(s) == IF s.t = "NormalKey" THEN <<s.keycode>> ELSE <<>>

\* Mutant of get_layer: no entry counts as a layer modifier.
get_layer_none(s) == <<>>

\* State::get_layer: Some(value) for a LayerModifier, None otherwise.
get_layer(s) == IF s.t = "LayerModifier" THEN <<s.value>> ELSE <<>>

\* State::release: None (the entry is dropped) when its coord is c, and a
\* dropped Custom entry reports Release(value); Some(self) otherwise.
release(s, c, custom) ==
    IF s.coord = c
    THEN [kept |-> <<>>,
          custom |-> IF s.t = "Custom"
                     THEN update(custom, CustomRelease(s.value))
                     ELSE custom]
    ELSE [kept |-> <<s>>, custom |-> custom]

(***************************************************************************)
(* Stacked (layout.rs 267-281) and the deque.                              *)
(***************************************************************************)
saturating_add(a, b) == IF a + b > U16Max THEN U16Max ELSE a + b
saturating_sub(a, b) == IF a < b THEN 0 ELSE a - b

Stacked(event) == [event |-> event, since |-> 0]
Stacked_tick(s) == [s EXCEPT !.since = saturating_add(s.since, 1)]

\* Mutant of push_back: a full deque refuses the new element and hands it
\* back, as an ArrayDeque with the Saturating behaviour does.
push_back_saturating(dq, s) ==
    IF Len(dq) >= DequeCap
    THEN [deque |-> dq, evicted |-> <<s>>]
    ELSE [deque |-> Append(dq, s), evicted |-> <<>>]

\* ArrayDeque<_, Wrapping>::push_back: when full, the front element is
\* removed and returned and the new element still goes to the back.
push_back(dq, s) ==
    IF Len(dq) >= DequeCap
    THEN [deque |-> Append(Tail(dq), s), evicted |-> <<Head(dq)>>]
    ELSE [deque |-> Append(dq, s), evicted |-> <<>>]

\* Mutant of pop_front: the newest entry is taken.
pop_back(dq) == [deque |-> SubSeq(dq, 1, Len(dq) - 1), popped |-> dq[Len(dq)]]

\* ArrayDeque::pop_front on a non-empty deque.
pop_front(dq) == [deque |-> Tail(dq), popped |-> Head(dq)]

(***************************************************************************)
(* WaitingState (layout.rs 211-265).                                       *)
(***************************************************************************)
WaitingState(c, timeout, delay, hold, tap, config) ==
    [coord |-> c, timeout |-> timeout, delay |-> delay, hold |-> hold,
     tap |-> tap, config |-> config]

is_corresponding_release(w, event) == is_release(event) /\ coord(event) = w.coord

\* Mutant of hold_on_other_key_press: only the front of the deque is looked at.
hold_on_front_press(stacked) ==
    stacked # <<>> /\ is_press(stacked[1].event)

\* HoldOnOtherKeyPress: stacked.iter().any(|s| s.event.is_press())
hold_on_other_key_press(stacked) ==
    \E x \in DOMAIN stacked : is_press(stacked[x].event)

\* Mutant of permissive_hold: the Release may be queued before the Press.
permissive_hold_unordered(stacked) ==
    \E x \in DOMAIN stacked :
        /\ is_press(stacked[x].event)
        /\ \E y \in DOMAIN stacked :
              stacked[y].event = Release(stacked[x].event.i, stacked[x].event.j)

\* PermissiveHold: some queued Press(i, j) has Release(i, j) after it.
permissive_hold(stacked) ==
    \E x \in DOMAIN stacked :
        /\ is_press(stacked[x].event)
        /\ \E y \in DOMAIN stacked :
              /\ y > x
              /\ stacked[y].event = Release(stacked[x].event.i, stacked[x].event.j)

\* The config-specific check made before the release and timeout tests.
config_hold(config, stacked) ==
    CASE config = "Default" -> FALSE
      [] config = "HoldOnOtherKeyPress" -> hold_on_other_key_press(stacked)
      [] config = "PermissiveHold" -> permissive_hold(stacked)

\* stacked.iter().find(|s| self.is_corresponding_release(&s.event)):
\* the first such entry, as an Option.
find_release(w, stacked) ==
    LET hits == {x \in DOMAIN stacked : is_corresponding_release(w, stacked[x].event)}
    IN  IF hits = {} THEN <<>>
        ELSE <<stacked[CHOOSE x \in hits : \A y \in hits : x <= y]>>

\* self.delay - since on u16: the build either checks the subtraction or wraps.
sub_overflows(delay, since) == delay < since
wrapping_sub(delay, since) ==
    IF delay < since THEN delay - since + U16Max + 1 ELSE delay - since

\* Mutant of released_in_time: a release on the last tick counts as a hold.
released_in_time_strict(timeout, delay, since) ==
    timeout > wrapping_sub(delay, since)

\* self.timeout >= self.delay - since
released_in_time(timeout, delay, since) == timeout >= wrapping_sub(delay, since)

\* Mutant of timed_out: the hold fires one tick early.
timed_out_early(timeout) == timeout <= 1

\* self.timeout == 0
timed_out(timeout) == timeout = 0

\* WaitingState::tick: the updated waiting state and the WaitingAction;
\* "Panic" is the checked subtraction failing.
WaitingState_tick(w, stacked, checks) ==
    LET w1 == [w EXCEPT !.timeout = saturating_sub(w.timeout, 1)]
        found == find_release(w1, stacked)
    IN  IF config_hold(w1.config, stacked)
        THEN [w |-> w1, action |-> "Hold"]
        ELSE IF found # <<>>
        THEN IF checks /\ sub_overflows(w1.delay, found[1].since)
             THEN [w |-> w1, action |-> "Panic"]
             ELSE IF released_in_time(w1.timeout, w1.delay, found[1].since)
                  THEN [w |-> w1, action |-> "Tap"]
                  ELSE [w |-> w1, action |-> "Hold"]
        ELSE IF timed_out(w1.timeout)
        THEN [w |-> w1, action |-> "Hold"]
        ELSE [w |-> w1, action |-> "NoOp"]

(***************************************************************************)
(* MapRetain (layout.rs 462-487) on heapless::Vec.                         *)
(***************************************************************************)
\* Vec::push: Err, and the vector unchanged, when it is full.
can_push(v) == Len(v) < StatesCap

\* Mutant of push: the vector grows past its capacity.
push_unbounded(v, s) == Append(v, s)
push(v, s) == IF can_push(v) THEN Append(v, s) ELSE v

\* Mutant of swap_remove_unchecked: the elements behind the removed one
\* move up by one place.
remove_shift(v, index) == SubSeq(v, 1, index) \o SubSeq(v, index + 2, Len(v))

\* Vec::swap_remove_unchecked(index): the last element takes the place of
\* the removed one (index is 0-based).
swap_remove_unchecked(v, index) ==
    IF index + 1 = Len(v)
    THEN SubSeq(v, 1, Len(v) - 1)
    ELSE SubSeq(v, 1, index) \o <<v[Len(v)]>> \o SubSeq(v, index + 2, Len(v) - 1)

\* Mutant of after_remove: the element swapped into the hole is skipped.
after_remove_skip(processed) == processed + 1

\* The index map_retain examines after removing the element at processed.
after_remove(processed) == processed

\* map_retain with f = |s| s.release(c, &mut custom).
RECURSIVE map_retain_from(_, _, _, _)
map_retain_from(v, processed, c, custom) ==
    IF processed >= Len(v)
    THEN [vec |-> v, custom |-> custom]
    ELSE LET res == release(v[processed + 1], c, custom)
         IN  IF res.kept # <<>>
             THEN map_retain_from([v EXCEPT ![processed + 1] = res.kept[1]],
                                  processed + 1, c, res.custom)
             ELSE map_retain_from(swap_remove_unchecked(v, processed),
                                  after_remove(processed), c, res.custom)

map_retain(v, c, custom) == map_retain_from(v, 0, c, custom)

(***************************************************************************)
(* DebouncedMatrix (debounced_matrix.rs 25-131).  Pins are the generic     *)
(* InputPin and OutputPin: every read returns what the environment gives,  *)
(* and any pin operation may return Err.  An image row is a u32.           *)
(***************************************************************************)
\* The row and column indices of the matrix (const RS, const CS).
RowIndex == 0..1
ColIndex == 0..1
RS == Cardinality(RowIndex)
CS == Cardinality(ColIndex)

\* StateTracker: the unit tracker of the crate, and a tracker of one
\* external boolean that reports its changes as events of key (TrackerRow, 0).
TrackerRow == 255
Trackers == {"unit", "switch"}
get_state(tracked, ext) == IF tracked = "unit" THEN FALSE ELSE ext
default_state(tracked) == FALSE
emit_event(tracked, lst, now) ==
    IF tracked = "unit" \/ lst = now THEN <<>>
    ELSE IF now THEN <<Press(TrackerRow, 0)>> ELSE <<Release(TrackerRow, 0)>>

\* The pin operation that returns Err during a call, as an Option.
NoFail == <<>>
Fail(op, ri, ci) == <<[op |-> op, ri |-> ri, ci |-> ci]>>
fails(fail, op, ri, ci) == fail = Fail(op, ri, ci)

\* 1 << ci
shl1(ci) == 2 ^ ci

\* acc |= mask, for a mask of one bit
RECURSIVE bit_or(_, _)
bit_or(acc, mask) ==
    IF mask = 1 THEN (IF acc % 2 = 1 THEN acc ELSE acc + 1)
    ELSE 2 * bit_or(acc \div 2, mask \div 2) + (acc % 2)

\* The loop of clear from row ri on: set_high row after row; the ? operator
\* returns at the first Err and leaves the rows behind it as they were.
RECURSIVE clear_from(_, _, _)
clear_from(rows, fail, ri) ==
    IF ri = Len(rows) THEN [err |-> FALSE, rows |-> rows]
    ELSE IF fails(fail, "set_high", ri, 0) THEN [err |-> TRUE, rows |-> rows]
    ELSE clear_from([rows EXCEPT ![ri + 1] = "high"], fail, ri + 1)

\* DebouncedMatrix::clear
clear(rows, fail) ==
    LET c == clear_from(rows, fail, 0)
    IN  [ret |-> IF c.err THEN "Err" ELSE "Ok", rows |-> c.rows]

\* DebouncedMatrix::new over row pins that are low: res is the struct that
\* clear has worked on, matrix the Option of what the caller gets (on Err
\* res is dropped with its pins and there is no matrix).
DebouncedMatrix_new(B, tracked, fail) ==
    LET c == clear([x \in 1..RS |-> "low"], fail)
        res == [rows |-> c.rows,
                current |-> [x \in 1..RS |-> 0],
                new |-> [x \in 1..RS |-> 0],
                since |-> 0,
                tracked |-> tracked,
                last_tracked |-> default_state(tracked),
                last_stable_tracked |-> default_state(tracked),
                B |-> B]
    IN  [ret |-> c.ret,
         matrix |-> IF c.ret = "Err" THEN <<>> ELSE <<res>>,
         res |-> res]

\* The inner loop of update over the columns of row ri.
RECURSIVE read_cols(_, _, _, _, _)
read_cols(low, fail, ri, ci, acc) ==
    IF ci = CS THEN [err |-> FALSE, bits |-> acc]
    ELSE IF fails(fail, "is_low", ri, ci) THEN [err |-> TRUE, bits |-> acc]
    ELSE read_cols(low, fail, ri, ci + 1,
                   IF low[ri][ci] THEN bit_or(acc, shl1(ci)) ELSE acc)

\* The outer loop of update: set_low, the reads, set_high, row after row;
\* the ? operator returns at the first Err.
RECURSIVE scan_rows(_, _, _, _, _)
scan_rows(rows, low, fail, ri, pressed_now) ==
    IF ri = RS THEN [err |-> FALSE, rows |-> rows, pressed_now |-> pressed_now]
    ELSE IF fails(fail, "set_low", ri, 0)
    THEN [err |-> TRUE, rows |-> rows, pressed_now |-> pressed_now]
    ELSE LET driven == [rows EXCEPT ![ri + 1] = "low"]
             c == read_cols(low, fail, ri, 0, 0)
         IN  IF c.err \/ fails(fail, "set_high", ri, 0)
             THEN [err |-> TRUE, rows |-> driven, pressed_now |-> pressed_now]
             ELSE scan_rows([driven EXCEPT ![ri + 1] = "high"], low, fail, ri + 1,
                            [pressed_now EXCEPT ![ri + 1] = c.bits])

\* Mutant of debounced: the image is accepted one call late.
debounced_late(since, B) == since > B + 1

\* Mutant of debounced: the image is accepted one call early.
debounced_early(since, B) == since >= B

\* self.since > B
debounced(since, B) == since > B

\* The part of update behind the sampling of the pins.
debounce(self, pressed_now, tracked_now) ==
    IF pressed_now = self.current /\ tracked_now = self.last_stable_tracked
    THEN [self |-> [self EXCEPT !.since = 0], res |-> "Ok(false)"]
    ELSE LET s2 == IF self.new # pressed_now \/ self.last_tracked # tracked_now
                   THEN [self EXCEPT !.new = pressed_now,
                                     !.last_tracked = tracked_now,
                                     !.since = 1]
                   ELSE [self EXCEPT !.since = @ + 1]
         IN  IF debounced(s2.since, s2.B)
             THEN [self |-> [s2 EXCEPT !.current = s2.new,
                                       !.new = s2.current,
                                       !.last_stable_tracked = s2.last_tracked,
                                       !.last_tracked = s2.last_stable_tracked,
                                       !.since = 0],
                   res |-> "Ok(true)"]
             ELSE [self |-> s2, res |-> "Ok(false)"]

\* Mutant of update: a scan that fails keeps what it has sampled so far.
update_partial(self, low, ext, fail) ==
    LET s == scan_rows(self.rows, low, fail, 0, [x \in 1..RS |-> 0])
        s1 == [self EXCEPT !.rows = s.rows]
    IN  IF s.err
        THEN [self |-> [s1 EXCEPT !.new = s.pressed_now, !.since = 1], res |-> "Err"]
        ELSE debounce(s1, s.pressed_now, get_state(self.tracked, ext))

\* DebouncedMatrix::update
update_matrix(self, low, ext, fail) ==
    LET s == scan_rows(self.rows, low, fail, 0, [x \in 1..RS |-> 0])
        s1 == [self EXCEPT !.rows = s.rows]
    IN  IF s.err
        THEN [self |-> s1, res |-> "Err"]
        ELSE debounce(s1, s.pressed_now, get_state(self.tracked, ext))

\* Mutant of bit_event: the old and the new image change places.
bit_event_swapped(o, n, i, b) ==
    IF o = 1 /\ n = 0 THEN <<Press(i, b)>>
    ELSE IF o = 0 /\ n = 1 THEN <<Release(i, b)>>
    ELSE <<>>

\* The match of scan on bit b of the old image o and the new image n.
bit_event(o, n, i, b) ==
    IF o = 0 /\ n = 1 THEN <<Press(i, b)>>
    ELSE IF o = 1 /\ n = 0 THEN <<Release(i, b)>>
    ELSE <<>>

U32Bits == 32

\* (0..u32::BITS).filter_map(..) on one row
RECURSIVE row_events(_, _, _, _)
row_events(o, n, i, b) ==
    IF b = U32Bits THEN <<>>
    ELSE bit_event(o % 2, n % 2, i, b) \o row_events(o \div 2, n \div 2, i, b + 1)

\* Mutant of image_events: the rows are visited from the last to the first.
RECURSIVE image_events_descending(_, _, _)
image_events_descending(old, now, i) ==
    IF i = Len(old) THEN <<>>
    ELSE image_events_descending(old, now, i + 1)
         \o row_events(old[i + 1], now[i + 1], i, 0)

\* self.new.iter().zip(self.current.iter()).enumerate().flat_map(..)
RECURSIVE image_events(_, _, _)
image_events(old, now, i) ==
    IF i = Len(old) THEN <<>>
    ELSE row_events(old[i + 1], now[i + 1], i, 0) \o image_events(old, now, i + 1)

\* DebouncedMatrix::scan, its iterator collected.
scan(self, low, ext, fail) ==
    LET u == update_matrix(self, low, ext, fail)
    IN  IF u.res = "Err" THEN [self |-> u.self, ret |-> "Err", events |-> <<>>]
        ELSE IF u.res = "Ok(true)"
        THEN [self |-> u.self, ret |-> "Some",
              events |-> image_events(u.self.new, u.self.current, 0)
                         \o emit_event(u.self.tracked, u.self.last_tracked,
                                       u.self.last_stable_tracked)]
        ELSE [self |-> u.self, ret |-> "None", events |-> <<>>]

\* No scan has been made yet.
NoScan ==
    [op |-> "new", ret |-> "Ok", events |-> <<>>, fail |-> NoFail,
     seen |-> <<>>, run |-> 0, image |-> {}]

(***************************************************************************)
(* Layout (layout.rs 283-460).  self is the struct, with the build profile *)
(* (checks), the panic flag and the log of the steps of the current call.  *)
(***************************************************************************)
Layout_new(ls) ==
    [layers |-> ls, default_layer |-> 0, states |-> <<>>, waiting |-> <<>>,
     deque |-> <<>>]

RECURSIVE filter_map_keycode(_)
filter_map_keycode(v) ==
    IF v = <<>> THEN <<>> ELSE keycode(Head(v)) \o filter_map_keycode(Tail(v))

\* Layout::keycodes, collected.
keycodes(sts) == filter_map_keycode(sts)

RECURSIVE filter_map_get_layer(_)
filter_map_get_layer(v) ==
    IF v = <<>> THEN <<>> ELSE get_layer(Head(v)) \o filter_map_get_layer(Tail(v))

RECURSIVE sum_from(_, _)
sum_from(acc, v) == IF v = <<>> THEN acc ELSE sum_from(acc + Head(v), Tail(v))

\* Mutant of current_layer: the held layers are added to the default layer.
current_layer_from_default(self) ==
    sum_from(self.default_layer, filter_map_get_layer(self.states))

\* Layout::current_layer
current_layer(self) ==
    LET iter == filter_map_get_layer(self.states)
    IN  IF iter = <<>> THEN self.default_layer ELSE sum_from(Head(iter), Tail(iter))

\* Mutant of set_default_layer: the value is not compared with layers.len().
set_default_layer_unchecked(self, value) == [self EXCEPT !.default_layer = value]

\* Layout::set_default_layer
set_default_layer(self, value) ==
    IF value < Len(self.layers) THEN [self EXCEPT !.default_layer = value] ELSE self

\* layers.get(layer).and_then(|l| l.get(coord.0)).and_then(|l| l.get(coord.1))
get_action(ls, c, layer) ==
    IF layer >= Len(ls) THEN <<>>
    ELSE IF c[1] >= Len(ls[layer + 1]) THEN <<>>
    ELSE IF c[2] >= Len(ls[layer + 1][c[1] + 1]) THEN <<>>
    ELSE <<ls[layer + 1][c[1] + 1][c[2] + 1]>>

\* Mutant of press_as_action: Trans never falls through to the default layer.
press_as_action_opaque(self, c, layer) ==
    LET action == get_action(self.layers, c, layer)
    IN  IF action = <<>> \/ action[1].t = "Trans" THEN NoOp ELSE action[1]

\* Layout::press_as_action
RECURSIVE press_as_action(_, _, _)
press_as_action(self, c, layer) ==
    LET action == get_action(self.layers, c, layer)
    IN  IF action = <<>> THEN NoOp
        ELSE IF action[1].t = "Trans"
        THEN IF layer # self.default_layer
             THEN press_as_action(self, c, self.default_layer)
             ELSE NoOp
        ELSE action[1]

note(self, entry) == [self EXCEPT !.log = Append(@, entry)]

\* Mutant of push_keycodes: only the first code of the list is pushed.
push_first_keycode(sts, v, c) ==
    IF v = <<>> THEN sts ELSE push(sts, NormalKey(Head(v), c))

RECURSIVE push_keycodes(_, _, _)
push_keycodes(sts, v, c) ==
    IF v = <<>> THEN sts
    ELSE IF can_push(sts)
    THEN push_keycodes(push(sts, NormalKey(Head(v), c)), Tail(v), c)
    ELSE push_keycodes(sts, Tail(v), c)

\* Layout::do_action; a failed assert!(self.waiting.is_none()) ends the call.
RECURSIVE do_action(_, _, _, _)
RECURSIVE do_actions(_, _, _, _, _)
do_action(self, action, c, delay) ==
    IF self.panicked THEN [self |-> self, custom |-> NoEvent]
    ELSE IF self.waiting # <<>>
    THEN [self |-> [note(self, [k |-> "assert"]) EXCEPT !.panicked = TRUE],
          custom |-> NoEvent]
    ELSE CASE action.t \in {"NoOp", "Trans"} ->
                [self |-> self, custom |-> NoEvent]
           [] action.t = "HoldTap" ->
                [self |-> [self EXCEPT !.waiting =
                              <<WaitingState(c, action.timeout, delay, action.hold,
                                             action.tap, action.config)>>],
                 custom |-> NoEvent]
           [] action.t = "KeyCode" ->
                [self |-> [self EXCEPT !.states = push(@, NormalKey(action.keycode, c))],
                 custom |-> NoEvent]
           [] action.t = "MultipleKeyCodes" ->
                [self |-> [self EXCEPT !.states = push_keycodes(@, action.keycodes, c)],
                 custom |-> NoEvent]
           [] action.t = "MultipleActions" ->
                do_actions(self, action.actions, c, delay, NoEvent)
           [] action.t = "Layer" ->
                [self |-> [self EXCEPT !.states = push(@, LayerModifier(action.value, c))],
                 custom |-> NoEvent]
           [] action.t = "DefaultLayer" ->
                [self |-> set_default_layer(self, action.value), custom |-> NoEvent]
           [] action.t = "Custom" ->
                IF can_push(self.states)
                THEN [self |-> [self EXCEPT !.states =
                                   push(@, CustomState(action.value, c))],
                      custom |-> CustomPress(action.value)]
                ELSE [self |-> self, custom |-> NoEvent]

\* The loop of the MultipleActions arm: custom.update(self.do_action(..)).
do_actions(self, v, c, delay, custom) ==
    IF v = <<>> \/ self.panicked THEN [self |-> self, custom |-> custom]
    ELSE LET r == do_action(self, Head(v), c, delay)
         IN  do_actions(r.self, Tail(v), c, delay, update(custom, r.custom))

\* Layout::waiting_into_hold
waiting_into_hold(self) ==
    IF self.waiting # <<>>
    THEN LET w == self.waiting[1]
         IN  do_action([note(self, [k |-> "hold", coord |-> w.coord])
                           EXCEPT !.waiting = <<>>],
                       w.hold, w.coord, 0)
    ELSE [self |-> self, custom |-> NoEvent]

\* Layout::waiting_into_tap
waiting_into_tap(self) ==
    IF self.waiting # <<>>
    THEN LET w == self.waiting[1]
         IN  do_action([note(self, [k |-> "tap", coord |-> w.coord])
                           EXCEPT !.waiting = <<>>],
                       w.tap, w.coord, 0)
    ELSE [self |-> self, custom |-> NoEvent]

\* Mutant of unstack: a Press is looked up on the default layer, whatever
\* layer keys are held.
unstack_on_default(self, stacked) ==
    LET s0 == note(self, [k |-> "unstack", event |-> stacked.event,
                          since |-> stacked.since])
    IN  IF is_release(stacked.event)
        THEN LET r == map_retain(s0.states, coord(stacked.event), NoEvent)
             IN  [self |-> [s0 EXCEPT !.states = r.vec], custom |-> r.custom]
        ELSE do_action(s0,
                       press_as_action(s0, coord(stacked.event), s0.default_layer),
                       coord(stacked.event), stacked.since)

\* Layout::unstack
unstack(self, stacked) ==
    LET s0 == note(self, [k |-> "unstack", event |-> stacked.event,
                          since |-> stacked.since])
    IN  IF is_release(stacked.event)
        THEN LET r == map_retain(s0.states, coord(stacked.event), NoEvent)
             IN  [self |-> [s0 EXCEPT !.states = r.vec], custom |-> r.custom]
        ELSE do_action(s0,
                       press_as_action(s0, coord(stacked.event), current_layer(s0)),
                       coord(stacked.event), stacked.since)

\* Mutant of tick_all: only the front entry ages.
tick_front(dq) ==
    [x \in DOMAIN dq |-> IF x = 1 THEN Stacked_tick(dq[x]) ELSE dq[x]]

\* self.deque.iter_mut().for_each(Stacked::tick)
tick_all(dq) == [x \in DOMAIN dq |-> Stacked_tick(dq[x])]

\* Mutant of Layout_tick: the front of the deque is processed although a
\* hold-tap is still waiting.
Layout_tick_eager(self) ==
    LET s1 == [self EXCEPT !.deque = tick_all(@)]
    IN  IF s1.waiting # <<>>
        THEN LET r == WaitingState_tick(s1.waiting[1], s1.deque, s1.checks)
                 s2 == note([s1 EXCEPT !.waiting = <<r.w>>],
                            [k |-> "arbiter", action |-> r.action])
             IN  CASE r.action = "Hold" -> waiting_into_hold(s2)
                   [] r.action = "Tap" -> waiting_into_tap(s2)
                   [] r.action = "NoOp" ->
                        IF s2.deque # <<>> /\ is_release(Head(s2.deque).event)
                        THEN unstack([s2 EXCEPT !.deque = Tail(@)], Head(s2.deque))
                        ELSE [self |-> s2, custom |-> NoEvent]
                   [] r.action = "Panic" ->
                        [self |-> [s2 EXCEPT !.panicked = TRUE], custom |-> NoEvent]
        ELSE IF s1.deque # <<>>
        THEN LET p == pop_front(s1.deque)
             IN  unstack([s1 EXCEPT !.deque = p.deque], p.popped)
        ELSE [self |-> s1, custom |-> NoEvent]

\* Layout::tick
Layout_tick(self) ==
    LET s1 == [self EXCEPT !.deque = tick_all(@)]
    IN  IF s1.waiting # <<>>
        THEN LET r == WaitingState_tick(s1.waiting[1], s1.deque, s1.checks)
                 s2 == note([s1 EXCEPT !.waiting = <<r.w>>],
                            [k |-> "arbiter", action |-> r.action])
             IN  CASE r.action = "Hold" -> waiting_into_hold(s2)
                   [] r.action = "Tap" -> waiting_into_tap(s2)
                   [] r.action = "NoOp" -> [self |-> s2, custom |-> NoEvent]
                   [] r.action = "Panic" ->
                        [self |-> [s2 EXCEPT !.panicked = TRUE], custom |-> NoEvent]
        ELSE IF s1.deque # <<>>
        THEN LET p == pop_front(s1.deque)
             IN  unstack([s1 EXCEPT !.deque = p.deque], p.popped)
        ELSE [self |-> s1, custom |-> NoEvent]

\* Mutant of Layout_event: the evicted entry is thrown away unprocessed and
\* the waiting hold-tap is left alone.
Layout_event_dropping(self, ev) ==
    [self EXCEPT !.deque = push_back(self.deque, Stacked(ev)).deque]

\* Layout::event: the CustomEvents of the two calls are dropped.
Layout_event(self, ev) ==
    LET p == push_back(self.deque, Stacked(ev))
        s1 == [self EXCEPT !.deque = p.deque]
    IN  IF p.evicted # <<>>
        THEN LET h == waiting_into_hold(s1)
             IN  IF h.self.panicked THEN h.self
                 ELSE unstack(h.self, p.evicted[1]).self
        ELSE s1

(***************************************************************************)
(* Layouts: the tables of the crate's tests, with short timeouts.          *)
(***************************************************************************)
\* test::hold_tap_interleaved_timeout
LayoutDefault ==
    << << << HoldTap(HoldTimeout + 1, k("LAlt"), k("Space"), "Default"),
             HoldTap(HoldTimeout, k("LCtrl"), k("Enter"), "Default") >> >> >>

\* test::hold_on_press
LayoutHoldOnPress ==
    << << << HoldTap(HoldTimeout, k("LAlt"), k("Space"), "HoldOnOtherKeyPress"),
             k("Enter") >> >> >>

\* test::permissive_hold
LayoutPermissive ==
    << << << HoldTap(HoldTimeout, k("LAlt"), k("Space"), "PermissiveHold"),
             k("Enter") >> >> >>

\* test::basic_hold_tap and test::multiple_actions, on three columns
LayoutKeys ==
    << << << m(<<"LCtrl", "Enter">>), k("F"),
             MultipleActions(<<l(1), k("LShift")>>) >> >>,
       << << Trans, k("E"), Trans >> >> >>

Layouts == {LayoutDefault, LayoutHoldOnPress, LayoutPermissive, LayoutKeys}

\* A hold-tap whose hold action is itself a hold-tap (Action::HoldTap takes
\* any &Action as hold and tap).
LayoutNested ==
    << << << HoldTap(HoldTimeout,
                     HoldTap(HoldTimeout, k("LAlt"), k("Enter"), "Default"),
                     k("Space"), "Default"),
             k("F") >> >> >>

\* One key sends all but two of the codes states has room for; the others
\* are a two-code key and a layer key, and on layer 1 it sends one code.
PadCodes == [x \in 1..(StatesCap - 2) |-> "A"]

LayoutFull ==
    << << << m(<<"LCtrl", "Enter">>), l(1), m(PadCodes) >> >>,
       << << Trans, Trans, k("E") >> >> >>

\* The same with a Custom key in the place of the layer key.
LayoutFullCustom ==
    << << << m(<<"LCtrl", "Enter">>), Custom(42), m(PadCodes) >> >> >>

FullLayouts == {LayoutFull, LayoutFullCustom}

\* test::custom, beside a plain key
LayoutCustomKey == << << << Custom(42), k("F") >> >> >>

\* A hold-tap whose hold action is Custom, beside a plain key
LayoutHoldCustom ==
    << << << HoldTap(HoldTimeout, Custom(1), k("Space"), "Default"), k("F") >> >> >>

BurstLayouts == {LayoutHoldOnPress, LayoutPermissive, LayoutNested, LayoutCustomKey}

\* Two layers: two keys that hold layer 1, and a key that latches it.
LayoutLayers ==
    << << << l(1), l(1), DefaultLayer(1) >> >>,
       << << l(1), Trans, k("E") >> >> >>

\* One layer: a custom key, a key with two custom actions, and a key that
\* asks for a default layer the table does not have.
LayoutCustom ==
    << << << Custom(42), MultipleActions(<<Custom(1), Custom(2)>>),
             DefaultLayer(1) >> >> >>

\* A MultipleActions whose first action is a hold-tap.
LayoutMulti ==
    << << << MultipleActions(<<HoldTap(HoldTimeout, k("LAlt"), k("Space"), "Default"),
                               k("LShift")>>),
             k("F") >> >> >>

\* One key, transparent on the two upper layers.
LayoutTrans ==
    << << << k("A") >> >>, << << Trans >> >>, << << Trans >> >> >>

ActionLayouts == {LayoutLayers, LayoutCustom, LayoutMulti, LayoutTrans}

\* The keys of a table: the coordinates of its first layer.
Keys(ls) ==
    {<<i, j>> : i \in 0..(Len(ls[1]) - 1), j \in 0..(Len(ls[1][1]) - 1)}

(***************************************************************************)
(* The state machine: one action per public method of Layout.  last, tk,   *)
(* wg, fifo and live record what the calls did; no operator of the engine  *)
(* reads them.                                                             *)
(***************************************************************************)
Self ==
    [layers |-> layers, default_layer |-> default_layer, states |-> states,
     waiting |-> waiting, deque |-> deque, checks |-> overflow_checks,
     panicked |-> panicked, log |-> <<>>]

NoWg == [T |-> 0, k |-> 0, age |-> 0, src |-> "none", cfg |-> "none",
         pressed |-> FALSE]

Unstacked(log) == SelectSeq(log, LAMBDA x : x.k = "unstack")

\* The history of the hold-tap that waits after call op left self1.
NextWg(self1, op, ev) ==
    IF self1.waiting = <<>> THEN NoWg
    ELSE IF self1.log = <<>>
    THEN [wg EXCEPT !.pressed =
             @ \/ (op = "event" /\ is_press(ev) /\ coord(ev) # self1.waiting[1].coord)]
    ELSE IF self1.panicked THEN wg
    ELSE IF self1.log[Len(self1.log)].k = "arbiter"
    THEN [wg EXCEPT !.k = @ + 1, !.age = @ + 1]
    ELSE [T |-> self1.waiting[1].timeout, k |-> 0,
          age |-> self1.waiting[1].delay,
          src |-> IF self1.log[Len(self1.log)].k = "unstack" THEN op ELSE "nested",
          cfg |-> self1.waiting[1].config,
          pressed |-> FALSE]

RECURSIVE NextLive(_, _)
NextLive(lv, un) ==
    IF un = <<>> THEN lv
    ELSE NextLive(IF is_press(Head(un).event)
                  THEN lv \cup {coord(Head(un).event)}
                  ELSE lv \ {coord(Head(un).event)},
                  Tail(un))

NoTick == [log |-> <<>>, ret |-> NoEvent, wg |-> NoWg, n0 |-> 0, tail0 |-> <<>>]

Commit(self1, op, ev) ==
    /\ default_layer' = self1.default_layer
    /\ states' = self1.states
    /\ waiting' = self1.waiting
    /\ deque' = self1.deque
    /\ panicked' = self1.panicked
    /\ last' = [op |-> op, ev |-> ev, log |-> self1.log]
    /\ wg' = NextWg(self1, op, ev)
    /\ live' = NextLive(live, Unstacked(self1.log))
    /\ LET q == IF op = "event" THEN Append(fifo, ev) ELSE fifo
           n == Len(Unstacked(self1.log))
       IN  fifo' = SubSeq(q, n + 1, Len(q))
    /\ UNCHANGED <<layers, overflow_checks, matrix, sc, rm>>

\* layout.event(ev)
Event(ev) ==
    /\ ~panicked
    /\ Commit(Layout_event(Self, ev), "event", ev)
    /\ down' = IF is_press(ev) THEN down \cup {coord(ev)} ELSE down \ {coord(ev)}
    /\ UNCHANGED tk

\* layout.tick()
Tick ==
    /\ ~panicked
    /\ LET r == Layout_tick(Self)
       IN  /\ Commit(r.self, "tick", NoArg)
           /\ tk' = [log |-> r.self.log, ret |-> r.custom, wg |-> wg,
                     n0 |-> Len(states),
                     tail0 |-> IF states = <<>> THEN <<>>
                               ELSE <<states[Len(states)].coord>>]
    /\ UNCHANGED down

LayoutInit(ls) ==
    /\ layers \in ls
    /\ default_layer = Layout_new(layers).default_layer
    /\ states = Layout_new(layers).states
    /\ waiting = Layout_new(layers).waiting
    /\ deque = Layout_new(layers).deque
    /\ overflow_checks \in BOOLEAN
    /\ panicked = FALSE
    /\ last = [op |-> "new", ev |-> NoArg, log |-> <<>>]
    /\ tk = NoTick
    /\ wg = NoWg
    /\ fifo = <<>>
    /\ live = {}
    /\ down = {}

\* The engine alone: the scanner is constructed and never called.
InitWith(ls) ==
    /\ LayoutInit(ls)
    /\ matrix = DebouncedMatrix_new(0, "unit", NoFail).matrix[1]
    /\ sc = NoScan
    /\ rm = NoRemap

EventsOf(cs) == {Press(c[1], c[2]) : c \in cs} \cup {Release(c[1], c[2]) : c \in cs}

\* A matrix key changes its physical position: presses and releases alternate.
Alternates(ev) == is_press(ev) <=> coord(ev) \notin down

\* Events arrive while fewer than MaxQueue are queued.
EventQueued ==
    \E ev \in EventsOf(Keys(layers)) :
        /\ Len(deque) < MaxQueue
        /\ Alternates(ev)
        /\ Event(ev)

Init == InitWith(Layouts)
Next == EventQueued \/ Tick
Spec == Init /\ [][Next]_vars

(***************************************************************************)
(* Bursts: between two ticks the key at ChatterKey bounces, and its events *)
(* fill the deque up to its capacity and beyond.                           *)
(***************************************************************************)
ChatterKey == <<0, 1>>

\* Events arrive while fewer than BurstQueue are queued.
EventFree ==
    \E ev \in EventsOf(Keys(layers)) :
        /\ Len(deque) < BurstQueue
        /\ Alternates(ev)
        /\ Event(ev)

\* The bouncing key: every entry behind the first BurstQueue ones arrived
\* since the last tick, and a full deque is pushed to while its front is
\* older than the burst.
Chatter ==
    \E ev \in EventsOf({ChatterKey}) :
        /\ Len(deque) >= BurstQueue
        /\ \A x \in DOMAIN deque : x > BurstQueue => deque[x].since = 0
        /\ \/ Len(deque) < DequeCap
           \/ coord(Head(deque).event) # ChatterKey
           \/ Head(deque).since > 0
        /\ Alternates(ev)
        /\ Event(ev)

\* A burst fills the deque: no tick falls between its first event and the
\* one that makes the deque full.
TickBurst ==
    /\ \/ Len(deque) <= BurstQueue
       \/ Len(deque) = DequeCap
       \/ \E x \in DOMAIN deque : x > BurstQueue /\ deque[x].since > 0
    /\ Tick

InitBurst == InitWith(BurstLayouts)
NextBurst == EventFree \/ Chatter \/ TickBurst
SpecBurst == InitBurst /\ [][NextBurst]_vars

\* The caller keeps calling tick(): a tick that can change the state is
\* eventually made.
SpecBurstFair == SpecBurst /\ WF_vars(TickBurst)

\* The bursts on the layouts with Custom actions.
CustomLayouts == {LayoutCustomKey, LayoutHoldCustom}
InitCustomBurst == InitWith(CustomLayouts)
SpecCustomBurst == InitCustomBurst /\ [][NextBurst]_vars

(***************************************************************************)
(* Layers, default layers and custom actions, with the public              *)
(* set_default_layer called between the events and the ticks.              *)
(***************************************************************************)
\* layout.set_default_layer(value)
SetDefaultLayer(value) ==
    /\ ~panicked
    /\ Commit(set_default_layer(Self, value), "set_default_layer",
              [NoArg EXCEPT !.i = value])
    /\ UNCHANGED <<tk, down>>

\* Every index of a layer, and the first one past them.
SetDefault == \E value \in 0..Len(layers) : SetDefaultLayer(value)

\* Events arrive while fewer than ActionQueue are queued.
EventActions ==
    \E ev \in EventsOf(Keys(layers)) :
        /\ Len(deque) < ActionQueue
        /\ Alternates(ev)
        /\ Event(ev)

InitActions == InitWith(ActionLayouts)
NextActions == EventActions \/ Tick \/ SetDefault
SpecActions == InitActions /\ [][NextActions]_vars

(***************************************************************************)
(* A table whose keys, held together, ask for more entries than states has *)
(* room for.                                                               *)
(***************************************************************************)
\* Events arrive while fewer than FullQueue are queued.
EventFull ==
    \E ev \in EventsOf(Keys(layers)) :
        /\ Len(deque) < FullQueue
        /\ Alternates(ev)
        /\ Event(ev)

InitFull == InitWith(FullLayouts)
NextFull == EventFull \/ Tick
SpecFull == InitFull /\ [][NextFull]_vars

(***************************************************************************)
(* The scanner: scan() is called with every image the column pins can      *)
(* give, every state of the tracked switch and every pin operation         *)
(* failing; the engine is not called.                                      *)
(***************************************************************************)
MaxB == 2

layout_vars == <<layers, default_layer, states, waiting, deque, overflow_checks,
                 panicked, last, tk, wg, fifo, live, down>>

\* The sets of keys that are held down at a scan: none, one, two on
\* different rows and columns, and all.
HeldSets ==
    {{}, {<<0, 0>>}, {<<0, 1>>, <<1, 0>>}, {<<0, 0>>, <<1, 1>>},
     RowIndex \X ColIndex}

\* What the column pins return: low[ri][ci] is the read of column ci while
\* row ri is driven, low when the key at (ri, ci) is held.
SampleOf(held) == [ri \in RowIndex |-> [ci \in ColIndex |-> <<ri, ci>> \in held]]
Samples == {SampleOf(held) : held \in HeldSets}

FailPoints ==
    {Fail(op, ri, 0)[1] : op \in {"set_low", "set_high"}, ri \in RowIndex}
    \cup {Fail("is_low", ri, ci)[1] : ri \in RowIndex, ci \in ColIndex}

\* The image a sample stands for: bit ci of row ri is set when the read is low.
RECURSIVE Weigh(_, _)
Weigh(row, ci) ==
    IF ci = CS THEN 0 ELSE (IF row[ci] THEN 2 ^ ci ELSE 0) + Weigh(row, ci + 1)

SampleImage(low) == [x \in 1..RS |-> Weigh(low[x - 1], 0)]

\* The receiver of the events: Press sets the bit of its key, Release clears it.
RECURSIVE Receive(_, _)
Receive(image, events) ==
    IF events = <<>> THEN image
    ELSE Receive(IF is_press(Head(events))
                 THEN image \cup {coord(Head(events))}
                 ELSE image \ {coord(Head(events))},
                 Tail(events))

\* new returned a matrix: after an Err there is nothing to call scan() on.
Constructed == sc.op = "scan" \/ sc.ret = "Ok"

\* matrix.scan()
Scan(low, ext, fail) ==
    LET r == scan(matrix, low, ext, fail)
        sample == [image |-> SampleImage(low),
                   tracked |-> get_state(matrix.tracked, ext)]
    IN  /\ Constructed
        /\ matrix' = r.self
        /\ sc' = [op |-> "scan", ret |-> r.ret, events |-> r.events, fail |-> fail,
                  seen |-> IF fail # NoFail THEN sc.seen ELSE <<sample>>,
                  run |-> IF fail # NoFail THEN sc.run
                          ELSE IF sc.seen # <<sample>> THEN 1
                          ELSE IF sc.run > matrix.B THEN sc.run
                          ELSE sc.run + 1,
                  image |-> Receive(sc.image, r.events)]
        /\ UNCHANGED <<layout_vars, rm>>

ScanOk ==
    \E low \in Samples, ext \in BOOLEAN :
        /\ (matrix.tracked = "unit" => ~ext)
        /\ Scan(low, ext, NoFail)

ScanFail ==
    \E low \in Samples, f \in FailPoints : Scan(low, FALSE, <<f>>)

\* The pin operations of new that can return Err, and none.
NewFails == {NoFail} \cup {Fail("set_high", ri, 0) : ri \in RowIndex}

\* new() with every outcome: on Err the variable matrix shows res as it was
\* dropped, and no scan follows.
InitMatrix ==
    /\ LayoutInit({LayoutKeys})
    /\ overflow_checks
    /\ \E B \in 0..MaxB, tracked \in Trackers, fail \in NewFails :
          LET r == DebouncedMatrix_new(B, tracked, fail)
          IN  /\ matrix = r.res
              /\ sc = [NoScan EXCEPT !.ret = r.ret, !.fail = fail]
    /\ rm = NoRemap

NextMatrix == ScanOk \/ ScanFail
SpecMatrix == InitMatrix /\ [][NextMatrix]_vars

(***************************************************************************)
(* Remapping: an event is passed through transform with a permutation of   *)
(* the coordinates, and the result through transform with its inverse.     *)
(***************************************************************************)
\* Coordinates of a matrix of u8 indices, the largest ones included.
RemapCoords == {<<0, 0>>, <<3, 1>>, <<3, 10>>, <<255, 255>>}

CoordPermutations ==
    {f \in [RemapCoords -> RemapCoords] :
        \A a, b \in RemapCoords : f[a] = f[b] => a = b}

Inverse(f) == [c \in RemapCoords |-> CHOOSE d \in RemapCoords : f[d] = c]

\* e.transform(p)
Transform ==
    /\ rm.calls = 0
    /\ rm' = [rm EXCEPT !.out = transform(rm.e, rm.f), !.calls = 1]
    /\ UNCHANGED <<layout_vars, matrix, sc>>

\* e.transform(p).transform(p inverse)
TransformBack ==
    /\ rm.calls = 1
    /\ rm' = [rm EXCEPT !.out = transform(rm.out, Inverse(rm.f)), !.calls = 2]
    /\ UNCHANGED <<layout_vars, matrix, sc>>

InitRemap ==
    /\ LayoutInit({LayoutKeys})
    /\ overflow_checks
    /\ matrix = DebouncedMatrix_new(0, "unit", NoFail).matrix[1]
    /\ sc = NoScan
    /\ rm \in {[e |-> e, f |-> f, out |-> e, calls |-> 0] :
                  e \in EventsOf(RemapCoords), f \in CoordPermutations}

NextRemap == Transform \/ TransformBack
SpecRemap == InitRemap /\ [][NextRemap]_vars

(***************************************************************************)
(* Vocabulary of the properties.                                           *)
(***************************************************************************)
TickStep == last'.op = "tick"
EventStep == last'.op = "event"

Arbiter(action) == [k |-> "arbiter", action |-> action]
IntoHold(c) == [k |-> "hold", coord |-> c]
IntoTap(c) == [k |-> "tap", coord |-> c]
Unstack(s) == [k |-> "unstack", event |-> s.event, since |-> s.since]

\* No Release of the waiting key is queued.
NoOwnRelease(w, dq) ==
    \A x \in DOMAIN dq : ~(dq[x].event.t = "Release" /\ coord(dq[x].event) = w.coord)

AnyPressQueued(dq) == \E x \in DOMAIN dq : dq[x].event.t = "Press"

\* Some key was pressed and then released, both events still queued.
PressThenRelease(dq) ==
    \E x, y \in DOMAIN dq :
        /\ x < y
        /\ dq[x].event.t = "Press"
        /\ dq[y].event.t = "Release"
        /\ coord(dq[x].event) = coord(dq[y].event)

\* The check the waiting key's config makes before the release and timeout tests.
PreCheckFires(w, dq) ==
    \/ w.config = "HoldOnOtherKeyPress" /\ AnyPressQueued(dq)
    \/ w.config = "PermissiveHold" /\ PressThenRelease(dq)

\* What executing action a for the waiting key leaves, from the current state.
Executed(a) == do_action([Self EXCEPT !.waiting = <<>>], a, waiting[1].coord, 0)

ResolvedAs(a, entry) ==
    /\ Len(tk'.log) >= 2
    /\ tk'.log[1] = Arbiter(IF entry.k = "hold" THEN "Hold" ELSE "Tap")
    /\ tk'.log[2] = entry
    /\ states' = Executed(a).self.states
    /\ waiting' = Executed(a).self.waiting
    /\ default_layer' = Executed(a).self.default_layer
    /\ tk'.ret = Executed(a).custom

StillWaiting ==
    /\ tk'.log = <<Arbiter("NoOp")>>
    /\ waiting' # <<>>
    /\ waiting'[1].coord = waiting[1].coord
    /\ waiting'[1].hold = waiting[1].hold
    /\ waiting'[1].tap = waiting[1].tap
    /\ states' = states
    /\ tk'.ret = NoEvent

(***************************************************************************)
(* C1  Hold on timeout: a waiting hold-tap of timeout T >= 1 with no        *)
(* Release of its key queued and no config pre-check firing stays waiting  *)
(* (NoOp, key codes unchanged, NoEvent returned) on each of the first T-1  *)
(* arbiter ticks, and on the T-th tick waiting is cleared and the hold     *)
(* action is executed with the key's coord.                                *)
(***************************************************************************)
C1_HoldOnTimeout ==
    [][ ( /\ TickStep
          /\ waiting # <<>>
          /\ wg.T >= 1
          /\ NoOwnRelease(waiting[1], deque)
          /\ ~PreCheckFires(waiting[1], deque) )
        => IF wg.k + 1 < wg.T
           THEN StillWaiting /\ keycodes(states') = keycodes(states)
           ELSE /\ wg.k + 1 = wg.T
                /\ ResolvedAs(waiting[1].hold, IntoHold(waiting[1].coord)) ]_vars

\* The T-th tick (T >= 2) has just turned a key into its hold action.
C1_Witness ==
    /\ last.op = "tick"
    /\ Len(tk.log) = 2
    /\ tk.log[1] = Arbiter("Hold")
    /\ tk.wg.T >= 2
    /\ tk.wg.k + 1 = tk.wg.T
    /\ ~AnyPressQueued(deque)
    /\ \A x \in DOMAIN deque : coord(deque[x].event) # tk.log[2].coord
    /\ \E x \in DOMAIN states : states[x].coord = tk.log[2].coord

(***************************************************************************)
(* C2  Under HoldTapConfig::Default with timeout T >= 1, a key whose Press *)
(* was dequeued by a tick and whose Release was passed to event() d >= 1   *)
(* ticks after its Press resolves as Tap if and only if d <= T, whatever   *)
(* time the Press spent in the deque; with no Release queued it resolves   *)
(* as Hold only once more than T ticks have passed since its Press.        *)
(***************************************************************************)
C2_TapIffReleasedWithinTimeout ==
    [][ ( /\ TickStep
          /\ waiting # <<>>
          /\ wg.cfg = "Default"
          /\ wg.src = "tick"
          /\ wg.T >= 1 )
        => LET w == waiting[1]
               rel == {x \in DOMAIN deque : deque[x].event = Release(w.coord[1], w.coord[2])}
               sincePress == wg.age + 1
           IN  IF rel # {}
               THEN LET x == CHOOSE x \in rel : \A y \in rel : x <= y
                        d == sincePress - (deque[x].since + 1)
                    IN  d >= 1 =>
                          tk'.log[1] = Arbiter(IF d <= wg.T THEN "Tap" ELSE "Hold")
               ELSE /\ tk'.log[1] \in {Arbiter("NoOp"), Arbiter("Hold")}
                    /\ tk'.log[1] = Arbiter("Hold") => sincePress > wg.T ]_vars

\* A key that waited two ticks or more in the deque has resolved as Tap.
C2_Witness ==
    /\ last.op = "tick"
    /\ tk.log # <<>>
    /\ tk.log[1] = Arbiter("Tap")
    /\ tk.wg.cfg = "Default"
    /\ tk.wg.src = "tick"
    /\ tk.wg.age - tk.wg.k >= 2

(***************************************************************************)
(* C3  HoldOnOtherKeyPress.  As amended: a tick at which the deque holds a *)
(* Press resolves the waiting key as Hold, also when the key's own Release *)
(* is queued and its timeout has not expired, and processes no queued      *)
(* event; the following tick, when the hold action left nothing waiting,   *)
(* processes the entry at the front of the deque, which is the Press only  *)
(* when nothing was queued ahead of it.                                    *)
(***************************************************************************)
HeldOnPress ==
    /\ tk.log # <<>>
    /\ tk.log[1] = Arbiter("Hold")
    /\ tk.wg.cfg = "HoldOnOtherKeyPress"
    /\ \E x \in DOMAIN deque : deque[x].event.t = "Press" /\ deque[x].since >= 1

C3_HoldOnOtherKeyPress ==
    [][ /\ ( /\ TickStep
             /\ waiting # <<>>
             /\ waiting[1].config = "HoldOnOtherKeyPress"
             /\ AnyPressQueued(deque) )
           => /\ ResolvedAs(waiting[1].hold, IntoHold(waiting[1].coord))
              /\ deque' = tick_all(deque)
        /\ ( /\ TickStep
             /\ HeldOnPress
             /\ waiting = <<>> )
           => tk'.log[1] = Unstack(Stacked_tick(Head(deque))) ]_vars

\* The key was held because of a queued Press, with its own Release queued
\* ahead of that Press and its timeout not expired.
C3_Witness ==
    /\ last.op = "tick"
    /\ HeldOnPress
    /\ tk.wg.k + 1 < tk.wg.T
    /\ deque # <<>>
    /\ deque[1].event = Release(tk.log[2].coord[1], tk.log[2].coord[2])
    /\ \E x \in DOMAIN states : states[x].coord = tk.log[2].coord

\* The claim as stated: the tick after the Hold processes the queued Press.
C3_Original ==
    [][ (TickStep /\ HeldOnPress)
        => /\ tk'.log # <<>>
           /\ tk'.log[1].k = "unstack"
           /\ tk'.log[1].event.t = "Press" ]_vars

(***************************************************************************)
(* C4  PermissiveHold: a queued Press alone does not resolve the waiting   *)
(* key (NoOp while its timeout has not expired and its own Release is not  *)
(* queued); a tick at which some Press(x,y) is followed in the deque by    *)
(* Release(x,y) resolves it as Hold.                                       *)
(***************************************************************************)
C4_PermissiveHold ==
    [][ ( /\ TickStep
          /\ waiting # <<>>
          /\ waiting[1].config = "PermissiveHold" )
        => /\ ( /\ ~PressThenRelease(deque)
                /\ NoOwnRelease(waiting[1], deque)
                /\ wg.k + 1 < wg.T )
              => StillWaiting
           /\ PressThenRelease(deque)
              => ResolvedAs(waiting[1].hold, IntoHold(waiting[1].coord)) ]_vars

\* The arbiter has just returned NoOp with a Press of another key queued.
C4_Witness ==
    /\ last.op = "tick"
    /\ tk.log = <<Arbiter("NoOp")>>
    /\ waiting # <<>>
    /\ waiting[1].config = "PermissiveHold"
    /\ \E x \in DOMAIN deque :
          deque[x].event.t = "Press" /\ coord(deque[x].event) # waiting[1].coord

(***************************************************************************)
(* C5  As amended: at most one hold-tap waits at any time, and no queued   *)
(* event is processed while a hold-tap waits: tick() pops nothing, and an  *)
(* overflowing event() first resolves the hold-tap as Hold.  A Press of    *)
(* another key passed to event() during the wait does not by itself force  *)
(* Hold: the hold-tap may still resolve as Tap.                            *)
(***************************************************************************)
C5_NothingProcessedWhileWaiting ==
    [][ /\ Len(waiting') <= 1
        /\ \A x \in DOMAIN last'.log :
              last'.log[x].k = "unstack"
              => \/ waiting = <<>>
                 \/ EventStep /\ x >= 2 /\ last'.log[1] = IntoHold(waiting[1].coord) ]_vars

\* A hold-tap has resolved as Tap although another key was pressed during
\* its wait; that Press is still queued.
C5_Witness ==
    /\ last.op = "tick"
    /\ tk.log # <<>>
    /\ tk.log[1] = Arbiter("Tap")
    /\ tk.wg.pressed
    /\ AnyPressQueued(deque)

\* The claim as stated: a key pressed during the wait forces Hold.
C5_Original ==
    (last.op = "tick" /\ tk.log # <<>> /\ tk.wg.pressed) => tk.log[1] # Arbiter("Tap")

(***************************************************************************)
(* C8  Release postcondition: right after a tick has processed             *)
(* Release(i,j), states holds no entry at (i,j), and the entries at every  *)
(* other coord are, as a multiset, exactly those it held before.           *)
(***************************************************************************)
Range(f) == {f[x] : x \in DOMAIN f}
BagOfSeq(v) == [e \in Range(v) |-> Cardinality({x \in DOMAIN v : v[x] = e})]
Elsewhere(v, c) == SelectSeq(v, LAMBDA st : st.coord # c)

C8_ReleasePostcondition ==
    [][ ( /\ TickStep
          /\ tk'.log # <<>>
          /\ tk'.log[1].k = "unstack"
          /\ tk'.log[1].event.t = "Release" )
        => LET c == coord(tk'.log[1].event)
           IN  /\ \A x \in DOMAIN states' : states'[x].coord # c
               /\ BagOfSeq(states') = BagOfSeq(Elsewhere(states, c)) ]_vars

\* A Release has removed two or more entries, one of them the last of
\* states, and left others.
C8_Witness ==
    /\ last.op = "tick"
    /\ tk.log # <<>>
    /\ tk.log[1].k = "unstack"
    /\ tk.log[1].event.t = "Release"
    /\ tk.n0 - Len(states) >= 2
    /\ tk.tail0 = <<coord(tk.log[1].event)>>
    /\ states # <<>>

(***************************************************************************)
(* C6  Strict FIFO: fifo holds the events passed to event() and not yet    *)
(* processed, oldest first.  Every call, overflowing or not, passes to     *)
(* unstack the oldest of them in order, so that no event is processed      *)
(* twice or overtaken, and those left are the events of the deque.         *)
(***************************************************************************)
EventsIn(dq) == [x \in DOMAIN dq |-> dq[x].event]

C6_StrictFifo ==
    [][ LET q == IF EventStep THEN Append(fifo, last'.ev) ELSE fifo
            un == Unstacked(last'.log)
        IN  /\ fifo = EventsIn(deque)
            /\ Len(un) <= Len(q)
            /\ \A x \in DOMAIN un : un[x].event = q[x]
            /\ EventsIn(deque') = SubSeq(q, Len(un) + 1, Len(q)) ]_vars

\* An overflowing event() has just processed the oldest queued event while
\* the deque stays full of later ones.
C6_Witness ==
    /\ last.op = "event"
    /\ Len(Unstacked(last.log)) = 1
    /\ Len(deque) = DequeCap
    /\ fifo = EventsIn(deque)
    /\ \E x \in DOMAIN deque : deque[x].event # deque[1].event

(***************************************************************************)
(* C7  Deque overflow rule: the deque never holds more than 16 entries.    *)
(* event() with 16 entries queued evicts the oldest and appends the new    *)
(* one, first resolves the waiting hold-tap (if any) as Hold and only then *)
(* passes the evicted entry to unstack; it never resolves a Tap, and when  *)
(* the evicted entry is the Release of the waiting key no state is left at *)
(* that key.  With fewer than 16 queued, event() only appends.             *)
(***************************************************************************)
C7_OverflowRule ==
    [][ /\ Len(deque') <= DequeCap
        /\ (EventStep /\ Len(deque) < DequeCap)
           => /\ deque' = Append(deque, Stacked(last'.ev))
              /\ last'.log = <<>>
              /\ states' = states
              /\ waiting' = waiting
        /\ (EventStep /\ Len(deque) = DequeCap)
           => LET pre == IF waiting # <<>> THEN <<IntoHold(waiting[1].coord)>>
                         ELSE <<>>
                  n == Len(pre) + 1
              IN  /\ deque' = Append(Tail(deque), Stacked(last'.ev))
                  /\ Len(last'.log) >= n
                  /\ SubSeq(last'.log, 1, n) = pre \o <<Unstack(Head(deque))>>
                  /\ \A x \in DOMAIN last'.log :
                        last'.log[x].k \notin {"tap", "arbiter"}
                  /\ ( /\ waiting # <<>>
                       /\ is_corresponding_release(waiting[1], Head(deque).event) )
                     => \A x \in DOMAIN states' : states'[x].coord # waiting[1].coord
      ]_vars

\* An overflowing event() has evicted the Release of the waiting key: the
\* key was resolved as Hold and the Release then processed.
C7_Witness ==
    /\ last.op = "event"
    /\ Len(last.log) = 2
    /\ last.log[1].k = "hold"
    /\ last.log[2].k = "unstack"
    /\ last.log[2].event = Release(last.log[1].coord[1], last.log[1].coord[2])
    /\ Len(deque) = DequeCap
    /\ waiting = <<>>

(***************************************************************************)
(* C9  Press-release balance (I1): every entry of states has a coord whose *)
(* Press has been processed with no Release of it processed since (live   *)
(* is the set of those coords).                                            *)
(***************************************************************************)
C9_PressReleaseBalance ==
    \A x \in DOMAIN states : states[x].coord \in live

(***************************************************************************)
(* C10  Key held contract.  As amended: the tick that processes the Press  *)
(* of a key bound to KeyCode(k) or MultipleKeyCodes appends to keycodes()  *)
(* the listed codes, in order, for which states still has room (all of     *)
(* them while states holds fewer than 64 entries after the push); every    *)
(* entry stays in states through every call that does not process the      *)
(* Release of its key; right after the tick that processes that Release    *)
(* the key contributes no code; and keycodes() yields exactly one code per *)
(* NormalKey entry of states, in the order of states.                      *)
(***************************************************************************)
CodesOf(action) ==
    CASE action.t = "KeyCode" -> <<action.keycode>>
      [] action.t = "MultipleKeyCodes" -> action.keycodes
      [] OTHER -> <<>>

Min(a, b) == IF a < b THEN a ELSE b
Count(v, e) == Cardinality({x \in DOMAIN v : v[x] = e})
ReleasedBy(log) ==
    {coord(log[x].event) : x \in {y \in DOMAIN log :
                                    log[y].k = "unstack" /\ log[y].event.t = "Release"}}
CodeAt(sts, c, kc) ==
    \E x \in DOMAIN sts : sts[x] = NormalKey(kc, c)

\* The tick pops a Press whose action at the current layer sends key codes.
PressOfCodes ==
    /\ TickStep
    /\ tk'.log # <<>>
    /\ tk'.log[1].k = "unstack"
    /\ tk'.log[1].event.t = "Press"
    /\ CodesOf(press_as_action(Self, coord(tk'.log[1].event), current_layer(Self))) # <<>>

C10_KeyHeld ==
    [][ /\ PressOfCodes
           => LET c == coord(tk'.log[1].event)
                  v == CodesOf(press_as_action(Self, c, current_layer(Self)))
                  n == Min(Len(v), StatesCap - Len(states))
              IN  /\ states' = states \o [x \in 1..n |-> NormalKey(v[x], c)]
                  /\ keycodes(states') = keycodes(states) \o SubSeq(v, 1, n)
        /\ \A x \in DOMAIN states :
              states[x].coord \notin ReleasedBy(last'.log)
              => Count(states', states[x]) >= Count(states, states[x])
        /\ \A c \in ReleasedBy(last'.log) :
              \A x \in DOMAIN states' : states'[x].coord # c
        /\ LET nk == SelectSeq(states', LAMBDA st : st.t = "NormalKey")
           IN  keycodes(states') = [x \in DOMAIN nk |-> nk[x].keycode] ]_vars

\* The Press of the two-code key found room for one code only: states is
\* full, LCtrl is reported for the key and Enter is not, and a layer
\* modifier sits among the entries.
C10_Witness ==
    /\ last.op = "tick"
    /\ tk.log # <<>>
    /\ tk.log[1].k = "unstack"
    /\ tk.log[1].event = Press(0, 0)
    /\ Len(states) = StatesCap
    /\ tk.n0 = StatesCap - 1
    /\ CodeAt(states, <<0, 0>>, "LCtrl")
    /\ ~CodeAt(states, <<0, 0>>, "Enter")
    /\ \E x \in DOMAIN states : states[x].t = "LayerModifier"

\* The claim as stated: after the tick that processes the Press, every
\* listed code is in keycodes().
C10_Original ==
    [][ PressOfCodes
        => LET c == coord(tk'.log[1].event)
               v == CodesOf(press_as_action(Self, c, current_layer(Self)))
           IN  \A x \in DOMAIN v : CodeAt(states', c, v[x]) ]_vars

(***************************************************************************)
(* C11  current_layer() is default_layer when states holds no              *)
(* LayerModifier; otherwise it is the sum of the values of the             *)
(* LayerModifiers of states (the first one plus all the following ones),   *)
(* default_layer is not added, and the result is not clamped to the number *)
(* of layers.                                                              *)
(***************************************************************************)
LayerValues(sts) ==
    LET lm == SelectSeq(sts, LAMBDA st : st.t = "LayerModifier")
    IN  [x \in DOMAIN lm |-> lm[x].value]

RECURSIVE Sum(_)
Sum(v) == IF v = <<>> THEN 0 ELSE Head(v) + Sum(Tail(v))

ActiveLayer ==
    IF LayerValues(states) = <<>> THEN default_layer ELSE Sum(LayerValues(states))

C11_CurrentLayer == current_layer(Self) = ActiveLayer

\* Two layer keys are held while the default layer is 1: the current layer
\* is their sum, past the last layer of the table.
C11_Witness ==
    /\ Len(LayerValues(states)) = 2
    /\ default_layer = 1
    /\ current_layer(Self) = 2
    /\ current_layer(Self) >= Len(layers)

(***************************************************************************)
(* C12  As amended: the layer used to resolve a press is default_layer     *)
(* when no LayerModifier is held, and otherwise the sum of the values of   *)
(* the held LayerModifiers without default_layer: holding Layer(n) alone   *)
(* selects layer n, also when default_layer is not 0.                      *)
(***************************************************************************)
\* The tick pops a Press: no hold-tap waits and a Press is at the front.
PopsPress ==
    /\ TickStep
    /\ waiting = <<>>
    /\ deque # <<>>
    /\ is_press(Head(deque).event)

\* The tick's effect is that of the action found on the given layer.
ResolvedOn(layer) ==
    LET st == Stacked_tick(Head(deque))
        c == coord(st.event)
        r == do_action(Self, press_as_action(Self, c, layer), c, st.since)
    IN  /\ states' = r.self.states
        /\ waiting' = r.self.waiting
        /\ default_layer' = r.self.default_layer
        /\ tk'.ret = r.custom

C12_PressLayer == [][ PopsPress => ResolvedOn(ActiveLayer) ]_vars

\* With default layer 1 and one Layer(1) key held, the Press of the third
\* key was resolved on layer 1 and sends E.
C12_Witness ==
    /\ last.op = "tick"
    /\ tk.log # <<>>
    /\ tk.log[1].k = "unstack"
    /\ tk.log[1].event = Press(0, 2)
    /\ default_layer = 1
    /\ LayerValues(states) = <<1>>
    /\ states[Len(states)] = NormalKey("E", <<0, 2>>)

\* The claim as stated: the press is resolved on default_layer plus the sum
\* of the held LayerModifiers.
C12_Original ==
    [][ PopsPress => ResolvedOn(default_layer + Sum(LayerValues(states))) ]_vars

(***************************************************************************)
(* C13  Action lookup: press_as_action(coord, layer) is NoOp when layer,   *)
(* row or column is out of range; for a Trans entry on a layer other than  *)
(* default_layer it is the result of the lookup at the same coord on the   *)
(* default layer, and for a Trans entry on the default layer it is NoOp.   *)
(* It is never Trans, and one step down to the default layer is all the    *)
(* recursion there is.                                                     *)
(***************************************************************************)
\* Coords and layers of the table, with one row, one column and one layer
\* past its ends.
ProbeCoords == {<<i, j>> : i \in 0..Len(layers[1]), j \in 0..Len(layers[1][1])}
ProbeLayers == 0..Len(layers)

InRange(c, layer) ==
    /\ layer < Len(layers)
    /\ c[1] < Len(layers[layer + 1])
    /\ c[2] < Len(layers[layer + 1][c[1] + 1])

Entry(c, layer) == layers[layer + 1][c[1] + 1][c[2] + 1]

\* The lookup on the default layer, where Trans has nowhere to fall to.
OnDefault(c) ==
    IF ~InRange(c, default_layer) THEN NoOp
    ELSE IF Entry(c, default_layer) = Trans THEN NoOp
    ELSE Entry(c, default_layer)

C13_ActionLookup ==
    \A c \in ProbeCoords, layer \in ProbeLayers :
        LET a == press_as_action(Self, c, layer)
        IN  /\ a # Trans
            /\ ~InRange(c, layer) => a = NoOp
            /\ (InRange(c, layer) /\ Entry(c, layer) = Trans)
               => a = IF layer # default_layer THEN OnDefault(c) ELSE NoOp
            /\ (InRange(c, layer) /\ Entry(c, layer) # Trans) => a = Entry(c, layer)

\* With the first layer key held, the Press of the second key found Trans
\* on layer 1 and pushed the Layer(1) of the default layer.
C13_Witness ==
    /\ last.op = "tick"
    /\ tk.log # <<>>
    /\ tk.log[1].k = "unstack"
    /\ tk.log[1].event = Press(0, 1)
    /\ default_layer = 0
    /\ Len(layers) = 2
    /\ Entry(<<0, 1>>, 1) = Trans
    /\ states = <<LayerModifier(1, <<0, 0>>), LayerModifier(1, <<0, 1>>)>>

(***************************************************************************)
(* C14  Default layer bound: default_layer is below the number of layers   *)
(* in every reachable state.  set_default_layer(n), and the tick that      *)
(* processes the Press of a key whose action is DefaultLayer(n), set       *)
(* default_layer to n when n is below the number of layers and leave it    *)
(* unchanged otherwise, and neither touches states; a tick that processes  *)
(* a Release leaves default_layer unchanged, so the value is latched.      *)
(***************************************************************************)
Latched(n) == IF n < Len(layers) THEN n ELSE default_layer

PressedAction == press_as_action(Self, coord(Head(deque).event), ActiveLayer)

PopsRelease ==
    /\ TickStep
    /\ waiting = <<>>
    /\ deque # <<>>
    /\ is_release(Head(deque).event)

C14_DefaultLayerBound ==
    [][ /\ default_layer < Len(layers)
        /\ default_layer' < Len(layers)
        /\ last'.op = "set_default_layer"
           => /\ default_layer' = Latched(last'.ev.i)
              /\ states' = states
        /\ (PopsPress /\ PressedAction.t = "DefaultLayer")
           => /\ default_layer' = Latched(PressedAction.value)
              /\ states' = states
        /\ PopsRelease => default_layer' = default_layer ]_vars

\* The Release of the DefaultLayer(1) key has been processed and the
\* default layer is still 1.
C14_Witness ==
    /\ last.op = "tick"
    /\ tk.log # <<>>
    /\ tk.log[1].k = "unstack"
    /\ tk.log[1].event = Release(0, 2)
    /\ Len(layers) = 2
    /\ Entry(<<0, 2>>, 0) = DefaultLayer(1)
    /\ default_layer = 1
    /\ states = <<>>

(***************************************************************************)
(* C15  Custom press/release cycle: for a key bound to Custom(v), the      *)
(* entry of the key appears in states in a tick that returns Press(v) and  *)
(* adds no key code, it disappears in a tick that returns Release(v), and  *)
(* a tick in which neither happens returns NoEvent: each transition is     *)
(* reported by exactly one tick.                                           *)
(***************************************************************************)
\* The keys bound to a Custom action on the only layer they are looked up on.
CustomKeys ==
    {c \in Keys(layers) : Len(layers) = 1 /\ Entry(c, 0).t = "Custom"}

Holds(sts, c) == \E x \in DOMAIN sts : sts[x].coord = c

C15_CustomCycle ==
    [][ \A c \in CustomKeys :
          /\ (~Holds(states, c) /\ Holds(states', c))
             => /\ TickStep
                /\ tk'.ret = CustomPress(Entry(c, 0).value)
                /\ keycodes(states') = keycodes(states)
          /\ (Holds(states, c) /\ ~Holds(states', c))
             => /\ TickStep
                /\ tk'.ret = CustomRelease(Entry(c, 0).value)
          /\ (TickStep /\ CustomKeys = Keys(layers) /\ (Holds(states, c) <=> Holds(states', c)))
             => tk'.ret = NoEvent ]_vars

(***************************************************************************)
(* C16  Custom-event combination law: update replaces the current value    *)
(* exactly when the new one is higher in the order NoEvent < Press <       *)
(* Release (the three cases NoEvent->Press, NoEvent->Release and           *)
(* Press->Release), so it never moves down; and the value a tick returns   *)
(* is a highest one, in that order, of the custom transitions the tick     *)
(* produced, NoEvent when it produced none.                                *)
(***************************************************************************)
Rank(e) == CASE e.t = "NoEvent" -> 0 [] e.t = "Press" -> 1 [] e.t = "Release" -> 2

CustomValues == {1, 2, 42}
CustomEvents ==
    {NoEvent} \cup {CustomPress(v) : v \in CustomValues}
              \cup {CustomRelease(v) : v \in CustomValues}

UpdateRaises ==
    \A a, b \in CustomEvents :
        /\ update(a, b) = IF Rank(b) > Rank(a) THEN b ELSE a
        /\ Rank(update(a, b)) >= Rank(a)

CustomCount(sts, v) ==
    Cardinality({x \in DOMAIN sts : sts[x].t = "Custom" /\ sts[x].value = v})

\* The custom transitions of a step: the Custom entries that states gained
\* and the ones it lost.
Produced ==
    {CustomPress(v) : v \in {u \in CustomValues :
                                CustomCount(states', u) > CustomCount(states, u)}}
    \cup {CustomRelease(v) : v \in {u \in CustomValues :
                                CustomCount(states', u) < CustomCount(states, u)}}

C16_UpdateLaw ==
    [][ /\ UpdateRaises
        /\ TickStep =>
              IF Produced = {} THEN tk'.ret = NoEvent
              ELSE /\ tk'.ret \in Produced
                   /\ \A e \in Produced : Rank(e) <= Rank(tk'.ret) ]_vars

\* A tick released a key that held two Custom entries and returned one Release.
C16_Witness ==
    /\ last.op = "tick"
    /\ tk.ret.t = "Release"
    /\ tk.n0 = Len(states) + 2

(***************************************************************************)
(* C17  do_action precondition: waiting is None at every invocation of     *)
(* do_action, so the assertion at its entry never fails, whatever the      *)
(* layout and the sequence of event and tick calls.                        *)
(***************************************************************************)
AssertFailed == [k |-> "assert"]

C17_AssertHolds ==
    \A x \in DOMAIN last.log : last.log[x] # AssertFailed

(***************************************************************************)
(* C18  No arithmetic panic in the arbiter: whenever the arbiter of a tick *)
(* finds the Release of the waiting key in the deque, the waiting delay is *)
(* at least the since of that Release, so the 16-bit subtraction           *)
(* delay - since does not underflow.                                       *)
(***************************************************************************)
\* The Release the arbiter of this tick finds, past the check of the config.
FoundRelease ==
    IF waiting = <<>> \/ config_hold(waiting[1].config, tick_all(deque)) THEN <<>>
    ELSE find_release(waiting[1], tick_all(deque))

C18_NoUnderflow ==
    [][ (TickStep /\ FoundRelease # <<>>)
          => /\ ~sub_overflows(waiting[1].delay, FoundRelease[1].since)
             /\ ~panicked' ]_vars

(***************************************************************************)
(* C19  states capacity: states never holds more than StatesCap entries; a *)
(* Press keeps the entries that are there and appends to them, a Press     *)
(* processed when states is full leaves it as it was, and a Custom action  *)
(* whose entry is not pushed returns no CustomEvent::Press.                *)
(***************************************************************************)
C19_StatesCapacity ==
    [][ /\ Len(states) <= StatesCap
        /\ Len(states') <= StatesCap
        /\ PopsPress
           => /\ Len(states') >= Len(states)
              /\ SubSeq(states', 1, Len(states)) = states
              /\ Len(states) = StatesCap
                 => /\ states' = states
                    /\ tk'.ret = NoEvent
              /\ PressedAction.t = "Custom"
                 => tk'.ret = IF Len(states') > Len(states)
                              THEN CustomPress(PressedAction.value)
                              ELSE NoEvent ]_vars

\* A tick processed the Press of the Custom key while states was full.
C19_Witness ==
    /\ last.op = "tick"
    /\ tk.log = <<Unstack([event |-> Press(0, 1), since |-> 1])>>
    /\ Entry(<<0, 1>>, 0) = Custom(42)
    /\ tk.n0 = StatesCap
    /\ Len(states) = StatesCap
    /\ tk.ret = NoEvent

(***************************************************************************)
(* C20  One step per tick: a tick adds one to since on every queued entry, *)
(* stopping at the largest 16-bit value, and then does exactly one of:     *)
(* one arbiter evaluation when a hold-tap waits at entry, which removes    *)
(* nothing from the deque even when it resolves as Hold or Tap; or popping *)
(* and processing exactly the front entry when none waits.  The deque      *)
(* gets shorter by at most one entry and no queued event is processed      *)
(* while a hold-tap waits.                                                 *)
(***************************************************************************)
\* Every entry one tick older.
Older(dq) ==
    [x \in DOMAIN dq |->
        [dq[x] EXCEPT !.since = IF @ >= U16Max THEN U16Max ELSE @ + 1]]

Ages == {0, 1, U16Max - 1, U16Max}

AgesSaturate ==
    \A a \in Ages :
        Stacked_tick([event |-> Press(0, 0), since |-> a]) =
            [event |-> Press(0, 0), since |-> IF a = U16Max THEN U16Max ELSE a + 1]

Steps(log, kind) == Len(SelectSeq(log, LAMBDA x : x.k = kind))

C20_OneStepPerTick ==
    [][ /\ AgesSaturate
        /\ TickStep
           => /\ Len(deque') >= Len(deque) - 1
              /\ IF waiting # <<>>
                 THEN /\ deque' = Older(deque)
                      /\ tk'.log[1].k = "arbiter"
                      /\ Steps(tk'.log, "arbiter") = 1
                      /\ Steps(tk'.log, "unstack") = 0
                 ELSE IF deque # <<>>
                 THEN /\ deque' = Tail(Older(deque))
                      /\ tk'.log[1] = Unstack(Head(Older(deque)))
                      /\ Steps(tk'.log, "unstack") = 1
                      /\ Steps(tk'.log, "arbiter") = 0
                 ELSE /\ deque' = <<>>
                      /\ tk'.log = <<>> ]_vars

\* The arbiter resolved a hold-tap on finding its Release, and the Release
\* is still at the front of the deque, behind it a younger entry.
C20_Witness ==
    /\ last.op = "tick"
    /\ Len(tk.log) >= 2
    /\ tk.log[1].k = "arbiter"
    /\ tk.log[2].k \in {"hold", "tap"}
    /\ Len(deque) >= 2
    /\ is_release(deque[1].event)
    /\ coord(deque[1].event) = tk.log[2].coord
    /\ deque[2].since < deque[1].since

(***************************************************************************)
(* C21  Progress: if from some point on only tick() is called, then after  *)
(* finitely many ticks waiting is None and the deque is empty, and in that *)
(* settled state states holds no entry at a coord whose most recently      *)
(* enqueued event was a Release (down is the set of the coords whose last  *)
(* event was a Press).                                                     *)
(***************************************************************************)
Settled ==
    /\ waiting = <<>>
    /\ deque = <<>>
    /\ \A x \in DOMAIN states : states[x].coord \in down

C21_Progress == <>[](last.op = "tick") => <>[]Settled

(***************************************************************************)
(* C22  Order of states.  As amended: a Press appends its entries at the   *)
(* end of states and keycodes() yields the codes in the order of states;   *)
(* a Release of c leaves the entries before the first entry at c in place  *)
(* and keeps the others as a multiset, but when the last entry of states   *)
(* survives it moves into the place of the first removed entry, so the     *)
(* order of the survivors is not the order of their insertion.             *)
(***************************************************************************)
\* The codes of the NormalKey entries, in the order of the entries.
NormalCodes(sts) ==
    LET keys == SelectSeq(sts, LAMBDA st : st.t = "NormalKey")
    IN  [x \in DOMAIN keys |-> keys[x].keycode]

\* The index of the first entry at c, past the end when there is none.
FirstAt(sts, c) ==
    LET at == {x \in DOMAIN sts : sts[x].coord = c}
    IN  IF at = {} THEN Len(sts) + 1 ELSE CHOOSE x \in at : \A y \in at : x <= y

C22_SwapRemoveOrder ==
    [][ /\ keycodes(states) = NormalCodes(states)
        /\ PopsPress => SubSeq(states', 1, Len(states)) = states
        /\ PopsRelease
           => LET c == coord(Head(deque).event)
                  first == FirstAt(states, c)
              IN  /\ SubSeq(states', 1, first - 1) = SubSeq(states, 1, first - 1)
                  /\ BagOfSeq(states') = BagOfSeq(Elsewhere(states, c))
                  /\ (first < Len(states) /\ states[Len(states)].coord # c)
                     => states'[first] = states[Len(states)] ]_vars

\* The Release of key (0,0) was processed while the layer key and then the
\* third key were held: the code of the third key, inserted last, now
\* stands before the layer modifier.
C22_Witness ==
    /\ last.op = "tick"
    /\ tk.log = <<Unstack([event |-> Release(0, 0), since |-> 1])>>
    /\ tk.n0 = 4
    /\ tk.tail0 = << <<0, 2>> >>
    /\ states = <<NormalKey("E", <<0, 2>>), LayerModifier(1, <<0, 1>>)>>

\* The claim as stated: the survivors of a Release keep their relative order.
C22_Original ==
    [][ PopsRelease => states' = Elsewhere(states, coord(Head(deque).event)) ]_vars

(***************************************************************************)
(* Vocabulary of the properties of the scanner.                            *)
(***************************************************************************)
\* The stable image and tracker state of a scanner.
Stable(self) == [image |-> self.current, tracked |-> self.last_stable_tracked]

\* The step is a scan() in which no pin operation failed.
ScanSampled == sc'.op = "scan" /\ sc'.fail = NoFail

\* The fields of the debounce state.
Debounce(self) ==
    <<self.current, self.new, self.since, self.last_tracked,
      self.last_stable_tracked>>

(***************************************************************************)
(* C23  Debounce monotonicity (I4): the stable image and the stable        *)
(* tracker state change only in a scan that sampled, for the (B+1)-th      *)
(* consecutive time or later, the image and tracker state they change to;  *)
(* a call that samples the stable image sets the count to 0 and a call     *)
(* that samples another image than the call before restarts it at 1.       *)
(***************************************************************************)
C23_DebounceMonotone ==
    [][ /\ Stable(matrix') # Stable(matrix)
           => /\ ScanSampled
              /\ sc'.ret = "Some"
              /\ sc'.run > matrix.B
              /\ sc'.seen = <<Stable(matrix')>>
        /\ (ScanSampled /\ sc'.seen = <<Stable(matrix)>>)
           => /\ matrix'.since = 0
              /\ sc'.ret = "None"
        /\ (ScanSampled /\ sc'.seen # sc.seen)
           => matrix'.since <= 1 ]_vars

\* With the largest B, an image other than the empty one became stable on
\* its (B+1)-th consecutive sample.
C23_Witness ==
    /\ sc.ret = "Some"
    /\ matrix.B = MaxB
    /\ sc.run = MaxB + 1
    /\ matrix.current # [x \in 1..RS |-> 0]
    /\ sc.seen = <<Stable(matrix)>>

(***************************************************************************)
(* C24  Event reconstruction: with the unit tracker, the events of all     *)
(* scans, applied to an empty image (Press sets the bit of its key,        *)
(* Release clears it), give the scanner's current image after every call;  *)
(* a changed scan emits one Press for each bit that went from 0 to 1, one  *)
(* Release for each bit that went from 1 to 0 and nothing else, and an     *)
(* unchanged scan emits nothing.                                           *)
(***************************************************************************)
Bits == 0..(U32Bits - 1)

\* The keys of row i whose bit is set in n, from bit b on.
RECURSIVE RowKeys(_, _, _)
RowKeys(n, i, b) ==
    IF n = 0 THEN {}
    ELSE (IF n % 2 = 1 THEN {<<i, b>>} ELSE {}) \cup RowKeys(n \div 2, i, b + 1)

\* The keys whose bit is set in an image.
ImageOf(image) == UNION {RowKeys(image[i + 1], i, 0) : i \in RowIndex}

Emitted(events, e) == Cardinality({x \in DOMAIN events : events[x] = e})

C24_EventReconstruction ==
    [][ matrix.tracked = "unit"
        => LET old == ImageOf(matrix.current)
               now == ImageOf(matrix'.current)
           IN  /\ sc'.image = now
               /\ sc'.ret = "Some"
                  => /\ old # now
                     /\ \A key \in RowIndex \X Bits :
                          /\ Emitted(sc'.events, Press(key[1], key[2])) =
                                IF key \in now \ old THEN 1 ELSE 0
                          /\ Emitted(sc'.events, Release(key[1], key[2])) =
                                IF key \in old \ now THEN 1 ELSE 0
                     /\ Len(sc'.events) =
                           Cardinality(now \ old) + Cardinality(old \ now)
               /\ sc'.ret # "Some"
                  => /\ sc'.events = <<>>
                     /\ old = now ]_vars

\* A changed scan of the unit tracker released two keys and pressed two
\* others.
C24_Witness ==
    /\ matrix.tracked = "unit"
    /\ sc.ret = "Some"
    /\ Len(sc.events) = 4
    /\ sc.image = {<<0, 0>>, <<1, 1>>}
    /\ Emitted(sc.events, Release(0, 1)) = 1
    /\ Emitted(sc.events, Press(1, 1)) = 1

(***************************************************************************)
(* C25  Rows idle high: after a construction that returned a matrix and    *)
(* after every return of scan(), with a result or with an error, every     *)
(* row output is high.                                                     *)
(***************************************************************************)
C25_RowsIdleHigh ==
    Constructed => \A x \in DOMAIN matrix.rows : matrix.rows[x] = "high"

\* After new() every row is high when it returned a matrix; when it
\* returned Err, the rows before the failing pin are high and the others
\* are as they were.
NewRows ==
    sc.op = "new"
    => /\ sc.ret = "Ok" <=> sc.fail = NoFail
       /\ \A ri \in RowIndex :
            matrix.rows[ri + 1] =
               IF sc.fail # NoFail /\ ri >= sc.fail[1].ri THEN "low" ELSE "high"

(***************************************************************************)
(* C26  Scanner error handling: a scan in which a pin operation fails      *)
(* returns the error, emits no event and leaves current, new, since,       *)
(* last_tracked and last_stable_tracked as they were before the call.      *)
(***************************************************************************)
C26_ErrorKeepsState ==
    [][ (sc'.op = "scan" /\ sc'.fail # NoFail)
        => /\ sc'.ret = "Err"
           /\ sc'.events = <<>>
           /\ Debounce(matrix') = Debounce(matrix)
           /\ sc'.image = sc.image ]_vars

\* A scan failed on a column read of the second row while an image was
\* being debounced.
C26_Witness ==
    /\ sc.ret = "Err"
    /\ sc.fail = Fail("is_low", 1, 1)
    /\ matrix.since > 0
    /\ matrix.new # matrix.current
    /\ matrix.new # [x \in 1..RS |-> 0]

(***************************************************************************)
(* C30  Debounce response: a scan returns changed exactly when it samples  *)
(* an image and tracker state that differ from the stable ones for the     *)
(* (B+1)-th consecutive time; then current is the sampled image and since  *)
(* is 0.  None of the first B of those calls returns changed, and with     *)
(* B = 0 a differing image is accepted on the first call.                  *)
(***************************************************************************)
C30_DebounceResponse ==
    [][ ScanSampled
        => /\ (sc'.ret = "Some")
              <=> (sc'.seen # <<Stable(matrix)>> /\ sc'.run = matrix.B + 1)
           /\ sc'.ret = "Some"
              => /\ <<Stable(matrix')>> = sc'.seen
                 /\ matrix'.since = 0
           /\ (sc'.seen # <<Stable(matrix)>> /\ sc'.run <= matrix.B)
              => /\ Stable(matrix') = Stable(matrix)
                 /\ matrix'.since = sc'.run ]_vars

\* With B = 0 the first sample of another image was accepted.
C30_Witness ==
    /\ matrix.B = 0
    /\ sc.ret = "Some"
    /\ sc.run = 1
    /\ sc.fail = NoFail
    /\ matrix.current # [x \in 1..RS |-> 0]
    /\ matrix.since = 0

(***************************************************************************)
(* C27  Remap round-trip (I5): transform keeps the Press/Release tag of    *)
(* the event and replaces (i,j) by f(i,j); for every permutation p of the  *)
(* coordinates, e.transform(p).transform(p inverse) is e.                  *)
(***************************************************************************)
C27_RemapRoundTrip ==
    /\ rm.calls = 1
       => /\ rm.out.t = rm.e.t
          /\ coord(rm.out) = rm.f[coord(rm.e)]
    /\ rm.calls = 2 => rm.out = rm.e

\* A Release went through a permutation that moves its key, and came back.
C27_Witness ==
    /\ rm.calls = 2
    /\ rm.e = Release(3, 1)
    /\ rm.f[<<3, 1>>] = <<3, 10>>
    /\ rm.f[<<3, 10>>] = <<255, 255>>
    /\ rm.out = Release(3, 1)

(***************************************************************************)
(* C28  Several Custom payloads on one key: for a key bound to             *)
(* MultipleActions of Custom(v1..vn), whatever other keys were pressed or  *)
(* released before, the tick that processes its Press returns Press(v1)    *)
(* and the tick that processes its Release returns Release(v1).            *)
(***************************************************************************)
\* The key at the front of the deque is bound to a list of Custom actions.
FrontIsCustomList ==
    LET a == Entry(coord(Head(deque).event), 0)
    IN  /\ Len(layers) = 1
        /\ a.t = "MultipleActions"
        /\ \A x \in DOMAIN a.actions : a.actions[x].t = "Custom"

FirstPayload == Entry(coord(Head(deque).event), 0).actions[1].value

C28_FirstPayload ==
    [][ /\ (PopsPress /\ FrontIsCustomList)
           => tk'.ret = CustomPress(FirstPayload)
        /\ (PopsRelease /\ FrontIsCustomList /\ Holds(states, coord(Head(deque).event)))
           => tk'.ret = CustomRelease(FirstPayload) ]_vars

(***************************************************************************)
(* C29  Layer resolved at dequeue time: the tick that dequeues the Press   *)
(* of a key bound to MultipleActions([Layer(n), KeyCode(k)]) pushes its    *)
(* LayerModifier and its NormalKey, so k is active; while that key is the  *)
(* only layer key held, the Press of another key is resolved on layer n by *)
(* the tick that dequeues it, also when it was passed to event() before    *)
(* the layer key was processed; and the tick that dequeues the Release of  *)
(* the layer key removes both entries.                                     *)
(***************************************************************************)
\* The action is MultipleActions([Layer(n), KeyCode(k)]).
LayerAndCode(a) ==
    /\ a.t = "MultipleActions"
    /\ Len(a.actions) = 2
    /\ a.actions[1].t = "Layer"
    /\ a.actions[2].t = "KeyCode"

\* The entries such a key puts in states.
LayerAndCodeEntries(a, c) ==
    <<LayerModifier(a.actions[1].value, c), NormalKey(a.actions[2].keycode, c)>>

\* The layer modifiers in states are those of one key, bound to such an action.
OnlyLayerKey(c) ==
    /\ InRange(c, 0)
    /\ LayerAndCode(Entry(c, 0))
    /\ \E x \in DOMAIN states : states[x] = LayerAndCodeEntries(Entry(c, 0), c)[1]
    /\ \A x \in DOMAIN states : states[x].t = "LayerModifier" => states[x].coord = c

\* The action of key c on layer n, Trans falling to layer 0.
OnLayer(c, n) ==
    IF InRange(c, n) /\ Entry(c, n) # Trans THEN Entry(c, n)
    ELSE IF Entry(c, 0) = Trans THEN NoOp
    ELSE Entry(c, 0)

C29_LayerAtDequeue ==
    [][ /\ (PopsPress /\ states = <<>> /\ LayerAndCode(Entry(coord(Head(deque).event), 0)))
           => LET c == coord(Head(deque).event)
              IN  /\ states' = LayerAndCodeEntries(Entry(c, 0), c)
                  /\ keycodes(states') = <<Entry(c, 0).actions[2].keycode>>
        /\ \A lc \in Keys(layers) :
             (PopsPress /\ default_layer = 0 /\ OnlyLayerKey(lc)
                        /\ coord(Head(deque).event) # lc)
             => LET c == coord(Head(deque).event)
                    a == OnLayer(c, Entry(lc, 0).actions[1].value)
                IN  a.t = "KeyCode" => states' = Append(states, NormalKey(a.keycode, c))
        /\ (PopsRelease /\ InRange(coord(Head(deque).event), 0)
                        /\ LayerAndCode(Entry(coord(Head(deque).event), 0)))
           => /\ \A x \in DOMAIN states' : states'[x].coord # coord(Head(deque).event)
              /\ Len(states') <= Len(states)
              /\ Holds(states, coord(Head(deque).event))
                 => Len(states') = Len(states) - 2 ]_vars

\* Press(0,1) was passed to event() before the tick that processed the
\* Press of the layer key (0,2), and the next tick resolved it on layer 1.
C29_Witness ==
    /\ last.op = "tick"
    /\ tk.log = <<Unstack([event |-> Press(0, 1), since |-> 2])>>
    /\ states = <<LayerModifier(1, <<0, 2>>), NormalKey("LShift", <<0, 2>>),
                  NormalKey("E", <<0, 1>>)>>

(***************************************************************************)
(* C31  Scan event order and tracker event: the events of a changed scan   *)
(* are the matrix events, in ascending row order and in ascending bit      *)
(* order within a row, followed by what the tracker's emit_event gives     *)
(* for the previous and the new stable tracked state, at most one event;   *)
(* a sample that differs from the stable state in the tracker state only   *)
(* is accepted on its (B+1)-th consecutive call, as a changed image is,    *)
(* and that scan yields the tracker's event only; with the unit tracker    *)
(* every event is a matrix event and a changed scan has a changed image.   *)
(***************************************************************************)
\* Key a comes before key b in row-major order.
RowMajor(a, b) == a[1] < b[1] \/ (a[1] = b[1] /\ a[2] < b[2])

\* The number of bits in which two images differ.
Changed(old, now) == Cardinality((old \ now) \cup (now \ old))

C31_ScanEventOrder ==
    [][ sc'.op = "scan"
        => LET old == Stable(matrix)
               now == Stable(matrix')
               ev == sc'.events
               tr == emit_event(matrix.tracked, old.tracked, now.tracked)
               n == Changed(ImageOf(old.image), ImageOf(now.image))
           IN  /\ sc'.ret = "Some"
                  => /\ Len(tr) <= 1
                     /\ Len(ev) = n + Len(tr)
                     /\ SubSeq(ev, n + 1, Len(ev)) = tr
                     /\ \A x \in 1..n : coord(ev[x]) \in RowIndex \X Bits
                     /\ \A x, y \in 1..n :
                          x < y => RowMajor(coord(ev[x]), coord(ev[y]))
                     /\ old.image = now.image
                        => /\ old.tracked # now.tracked
                           /\ ev = tr
               /\ ( /\ ScanSampled
                    /\ sc'.seen[1].image = old.image
                    /\ sc'.seen[1].tracked # old.tracked )
                  => /\ (sc'.ret = "Some") <=> (sc'.run = matrix.B + 1)
                     /\ sc'.ret = "Some"
                        => /\ now.image = old.image
                           /\ now.tracked = sc'.seen[1].tracked
                           /\ Len(ev) <= 1
               /\ matrix.tracked = "unit"
                  => /\ \A x \in DOMAIN ev : coord(ev[x]) \in RowIndex \X Bits
                     /\ Len(ev) = n
                     /\ sc'.ret = "Some" => n > 0 ]_vars

\* A changed scan released and pressed keys of both rows while the tracked
\* switch opened: four matrix events in row-major order, then the tracker's.
C31_Witness ==
    /\ matrix.tracked = "switch"
    /\ sc.ret = "Some"
    /\ sc.events = <<Release(0, 0), Press(0, 1), Press(1, 0), Release(1, 1),
                     Release(TrackerRow, 0)>>

\* With the largest B, a change of the tracked switch alone, with keys held,
\* was accepted on its (B+1)-th sample and gave the tracker's event only.
C31_TrackerOnly ==
    /\ matrix.tracked = "switch"
    /\ matrix.B = MaxB
    /\ sc.ret = "Some"
    /\ sc.run = MaxB + 1
    /\ sc.events = <<Press(TrackerRow, 0)>>
    /\ matrix.current # [x \in 1..RS |-> 0]

(***************************************************************************)
(* C32  Custom transitions lost on overflow: event() returns nothing and   *)
(* leaves the result of the last tick as it was.  When it finds the deque  *)
(* full, the Hold it forces on a waiting hold-tap whose hold action is     *)
(* Custom(v) and the processing of an evicted Press or Release of a        *)
(* Custom key add the Custom entry to states or remove it, as in a tick;   *)
(* states changes its Custom entries in no other call of event().  Every   *)
(* tick returns NoEvent or a transition that this very tick made in        *)
(* states, so a transition made inside event() is returned by no call.     *)
(***************************************************************************)
HasCustom(sts, c, v) ==
    \E x \in DOMAIN sts :
        sts[x].t = "Custom" /\ sts[x].coord = c /\ sts[x].value = v

\* The log of the call holds an entry of kind kd.
Logged(log, kd) == \E x \in DOMAIN log : log[x].k = kd

C32_CustomLost ==
    [][ /\ EventStep
           => /\ tk' = tk
              /\ Len(deque) < DequeCap
                 => /\ Produced = {}
                    /\ states' = states
                    /\ waiting' = waiting
              /\ Len(deque) = DequeCap
                 => LET front == Head(deque).event
                        c == coord(front)
                    IN  /\ waiting' = <<>> \/ waiting = <<>>
                        /\ (waiting # <<>> /\ waiting[1].hold.t = "Custom")
                           => (HasCustom(states', waiting[1].coord,
                                         waiting[1].hold.value)
                               <=> front # Release(waiting[1].coord[1],
                                                   waiting[1].coord[2]))
                        /\ (c \in CustomKeys /\ is_press(front))
                           => /\ HasCustom(states', c, Entry(c, 0).value)
                              /\ CustomCount(states', Entry(c, 0).value) =
                                    CustomCount(states, Entry(c, 0).value) + 1
                        /\ (c \in CustomKeys /\ is_release(front))
                           => ~Holds(states', c)
        /\ TickStep
           => (tk'.ret = NoEvent \/ tk'.ret \in Produced) ]_vars

\* An event() found the deque full and forced the Hold of the waiting
\* hold-tap: its Custom entry is in states, and the last tick, made before,
\* returned NoEvent.
C32_Witness ==
    /\ last.op = "event"
    /\ Logged(last.log, "hold")
    /\ HasCustom(states, <<0, 0>>, 1)
    /\ tk.ret = NoEvent

\* An event() evicted the Press of a Custom key and processed it: the
\* entry is in states and no tick has returned a Press.
C32_EvictedPress ==
    /\ last.op = "event"
    /\ layers = LayoutCustomKey
    /\ Logged(last.log, "unstack")
    /\ HasCustom(states, <<0, 0>>, 42)
    /\ tk.ret = NoEvent

\* An event() evicted the Release of a held Custom key: the entry has left
\* states and the last tick returned the Press.
C32_EvictedRelease ==
    /\ last.op = "event"
    /\ layers = LayoutCustomKey
    /\ Logged(last.log, "unstack")
    /\ last.log[Len(last.log)].event = Release(0, 0)
    /\ states = <<>>
    /\ tk.ret = CustomPress(42)

====
